---- MODULE Spec2Model ----
(***************************************************************************)
(* Text_organizer: the text normalisation pipeline of text_processor.py    *)
(* (TextProcessor.process_text and the steps of clean_line).               *)
(*                                                                         *)
(* A string is a sequence of one-character strings.  The regular           *)
(* expressions of TextProcessor.__init__ are kept as syntax trees and run  *)
(* by a backtracking matcher with the semantics of Python's re module:     *)
(* leftmost match, greedy quantifiers, alternatives tried left to right,   *)
(* non-overlapping matches for findall and sub.                            *)
(***************************************************************************)
EXTENDS Integers, Sequences, FiniteSets, TLC

(***************************************************************************)
(* Characters                                                              *)
(***************************************************************************)
DigitChars == <<"0", "1", "2", "3", "4", "5", "6", "7", "8", "9">>

\* \d of the re module
Digit == {DigitChars[i] : i \in 1..Len(DigitChars)}

\* the line boundaries of str.splitlines ("\r\n" counts as one boundary)
LineBreaks == {"\n", "\r", "\f"}

\* str.isspace / \s of the re module
Whitespace == {" ", "\t"} \cup LineBreaks

\* the Hangul syllables the patterns name, each one character (by code point)
KNyeon == "U+B144"  \* 년
KWol == "U+C6D4"  \* 월
KIl == "U+C77C"  \* 일
KHwa == "U+D654"  \* 화
KSu == "U+C218"  \* 수
KMok == "U+BAA9"  \* 목
KGeum == "U+AE08"  \* 금
KTo == "U+D1A0"  \* 토
KYo == "U+C694"  \* 요
KO == "U+C624"  \* 오
KJeon == "U+C804"  \* 전
KHu == "U+D6C4"  \* 후
KBo == "U+BCF4"  \* 보
KNaen == "U+B0B8"  \* 낸
KMe == "U+BA54"  \* 메
KSi == "U+C2DC"  \* 시
KJi == "U+C9C0"  \* 지
KI == "U+C774"  \* 이
KHoe == "U+D68C"  \* 회
KWon == "U+C6D0"  \* 원
KNim == "U+B2D8"  \* 님
KE == "U+C5D0"  \* 에
KGe == "U+AC8C"  \* 게
KDap == "U+B2F5"  \* 답
KJang == "U+C7A5"  \* 장
KNa == "U+B098"  \* 나
KUi == "U+C758"  \* 의

\* the character class [\[\]\(\)] of clean_line
Brackets == {"[", "]", "(", ")"}

(***************************************************************************)
(* Sequence helpers                                                        *)
(***************************************************************************)
\* F(x) for x bound to the value of v: v is evaluated once, whatever F does with it
Let(v, F(_)) == CHOOSE r \in {F(x) : x \in {v}} : TRUE

\* the function f on 1..n as a tuple
Tuple(f) == f \o <<>>

\* s[a+1..b], the Python slice s[a:b]
Slice(s, a, b) == IF b <= a THEN <<>> ELSE SubSeq(s, a + 1, b)

RECURSIVE Flatten(_)
Flatten(ss) == IF ss = <<>> THEN <<>> ELSE Head(ss) \o Flatten(Tail(ss))

Min(S) == Let(S, LAMBDA T : CHOOSE x \in T : \A y \in T : x <= y)
Max(S) == Let(S, LAMBDA T : CHOOSE x \in T : \A y \in T : x >= y)

\* str.strip()
Strip(s) ==
    Let({i \in 1..Len(s) : s[i] \notin Whitespace},
        LAMBDA inked : IF inked = {} THEN <<>> ELSE SubSeq(s, Min(inked), Max(inked)))

\* "not line.strip()"
IsBlank(s) == Strip(s) = <<>>

(***************************************************************************)
(* Regular expressions.  A pattern is a sequence of nodes:                 *)
(*   [t |-> "cls", set, neg, min, max]  a character class, greedy {min,max}*)
(*   [t |-> "lit", s]                   a literal string                   *)
(*   [t |-> "opt", r]                   (?:r)?  greedy                     *)
(*   [t |-> "alt", a, b]                (?:a|b)                            *)
(*   [t |-> "grp", r]                   a capturing group (r)              *)
(*   [t |-> "nlb", set]                 (?<!c) for a class                 *)
(*   [t |-> "nla", set]                 (?!c) for a class                  *)
(* A match state is [pos, caps]: pos characters are consumed, caps are the *)
(* <<start, end>> spans of the groups closed so far.                       *)
(***************************************************************************)
Unbounded == -1

Cls(set, min, max) == [t |-> "cls", set |-> set, neg |-> FALSE, min |-> min, max |-> max]
NotCls(set, min, max) == [t |-> "cls", set |-> set, neg |-> TRUE, min |-> min, max |-> max]
Lit(s) == [t |-> "lit", s |-> s]
Opt(r) == [t |-> "opt", r |-> r]
Alt(a, b) == [t |-> "alt", a |-> a, b |-> b]
Grp(r) == [t |-> "grp", r |-> r]
NotBehind(set) == [t |-> "nlb", set |-> set]
NotAhead(set) == [t |-> "nla", set |-> set]

InClass(c, node) == IF node.neg THEN c \notin node.set ELSE c \in node.set

\* how many characters from pos on are in the class, at most lim (Unbounded: no limit)
RunLen(s, pos, node, lim) ==
    Let(Min({j \in 0..(Len(s) - pos) :
                j = Len(s) - pos \/ ~InClass(s[pos + j + 1], node)}),
        LAMBDA n : IF lim = Unbounded \/ n <= lim THEN n ELSE lim)

IsPrefixAt(lit, s, pos) ==
    /\ pos + Len(lit) <= Len(s)
    /\ \A i \in 1..Len(lit) : s[pos + i] = lit[i]

RECURSIVE MatchSeq(_, _, _, _)
RECURSIVE MatchNode(_, _, _)
RECURSIVE MatchEach(_, _, _, _, _)

\* every way of matching the nodes pat[i..] from state st, the preferred way first
MatchSeq(pat, i, s, st) ==
    IF i > Len(pat) THEN <<st>>
    ELSE Let(MatchNode(pat[i], s, st), LAMBDA sts : MatchEach(sts, 1, pat, i + 1, s))

\* the ways of matching pat[i..] from each of the states sts[j..], in their order
MatchEach(sts, j, pat, i, s) ==
    IF j > Len(sts) THEN <<>>
    ELSE MatchSeq(pat, i, s, sts[j]) \o MatchEach(sts, j + 1, pat, i, s)

\* every way of matching one node from state st, the preferred way first
MatchNode(node, s, st) ==
    CASE node.t = "cls" ->
           Let(RunLen(s, st.pos, node, node.max),
               LAMBDA n :
                   IF n < node.min THEN <<>>
                   ELSE Tuple([j \in 1..(n - node.min + 1) |->
                                  [pos |-> st.pos + n - j + 1, caps |-> st.caps]]))
      [] node.t = "lit" ->
           IF IsPrefixAt(node.s, s, st.pos)
           THEN <<[pos |-> st.pos + Len(node.s), caps |-> st.caps]>>
           ELSE <<>>
      [] node.t = "opt" -> MatchSeq(node.r, 1, s, st) \o <<st>>
      [] node.t = "alt" -> MatchSeq(node.a, 1, s, st) \o MatchSeq(node.b, 1, s, st)
      [] node.t = "grp" ->
           Let(MatchSeq(node.r, 1, s, st),
               LAMBDA inner :
                   Tuple([j \in 1..Len(inner) |->
                             [pos |-> inner[j].pos,
                              caps |-> Append(inner[j].caps, <<st.pos, inner[j].pos>>)]]))
      [] node.t = "nlb" ->
           IF st.pos >= 1 /\ s[st.pos] \in node.set THEN <<>> ELSE <<st>>
      [] node.t = "nla" ->
           IF st.pos < Len(s) /\ s[st.pos + 1] \in node.set THEN <<>> ELSE <<st>>

\* pattern.match at position start: the preferred match, as a sequence of zero or one match
MatchAt(pat, s, start) ==
    Let(MatchSeq(pat, 1, s, [pos |-> start, caps |-> <<>>]),
        LAMBDA r : IF r = <<>> THEN <<>>
                   ELSE <<[start |-> start, end |-> r[1].pos, caps |-> r[1].caps]>>)

\* table[q] is the match at start position q - 1
MatchTable(pat, s) == Tuple([q \in 1..(Len(s) + 1) |-> MatchAt(pat, s, q - 1)])

\* the leftmost match that starts at start or later, as a sequence of zero or one match
Leftmost(table, start) ==
    Let({q \in DOMAIN table : q > start /\ table[q] # <<>>},
        LAMBDA at : IF at = {} THEN <<>> ELSE table[Min(at)])

\* re.search
Search(pat, s) == Let(MatchTable(pat, s), LAMBDA table : Leftmost(table, 0))

RECURSIVE FindAllFrom(_, _)
\* the non-overlapping matches, left to right (no pattern here matches the empty string)
FindAllFrom(table, start) ==
    Let(Leftmost(table, start),
        LAMBDA m : IF m = <<>> THEN <<>> ELSE m \o FindAllFrom(table, m[1].end))

\* the matches of re.findall / re.finditer / re.sub
FindAll(pat, s) == Let(MatchTable(pat, s), LAMBDA table : FindAllFrom(table, 0))

\* m.group(g)
Group(s, m, g) == Slice(s, m.caps[g][1], m.caps[g][2])

RECURSIVE Splice(_, _, _, _, _)
\* s from position from on, with the span of each of ms[j..] replaced by its reps[j]
Splice(s, ms, reps, j, from) ==
    IF j > Len(ms) THEN Slice(s, from, Len(s))
    ELSE Slice(s, from, ms[j].start) \o reps[j] \o Splice(s, ms, reps, j + 1, ms[j].end)

\* re.sub(pat, repl, s) for the matches ms of pat in s
SubMatches(s, ms, reps) == Splice(s, ms, reps, 1, 0)

(***************************************************************************)
(* Provenance of the characters of the line being cleaned, kept alongside  *)
(* it: url says the character derives from a YouTube URL of the input      *)
(* line, by names the step that wrote it (0: the input, 1..5: the date     *)
(* pattern of that index, 6: the time formatting, 7: the final clean-up).  *)
(***************************************************************************)
ProvRep(prov, m, len, tag) ==
    Let(\E p \in (m.start + 1)..m.end : prov[p].url,
        LAMBDA u : Tuple([i \in 1..len |-> [url |-> u, by |-> tag]]))

SubProv(prov, ms, reps, tag) ==
    Let(Tuple([j \in 1..Len(ms) |-> ProvRep(prov, ms[j], Len(reps[j]), tag)]),
        LAMBDA preps : Splice(prov, ms, preps, 1, 0))

(***************************************************************************)
(* int() and the format spec 02d                                           *)
(***************************************************************************)
DigitValue(c) == (CHOOSE i \in 1..10 : DigitChars[i] = c) - 1

RECURSIVE ToInt(_)
\* int(s) for a string of digits
ToInt(s) ==
    IF s = <<>> THEN 0
    ELSE 10 * ToInt(SubSeq(s, 1, Len(s) - 1)) + DigitValue(s[Len(s)])

RECURSIVE ToStr(_)
\* str(n) for n >= 0
ToStr(n) ==
    IF n < 10 THEN <<DigitChars[n + 1]>>
    ELSE ToStr(n \div 10) \o <<DigitChars[(n % 10) + 1]>>

Pad2NoZero(n) == ToStr(n)

\* f"{n:02d}"
Pad2(n) == IF n < 10 THEN <<"0">> \o ToStr(n) ELSE ToStr(n)

(***************************************************************************)
(* The patterns of TextProcessor.__init__                                  *)
(***************************************************************************)
D4 == Grp(<<Cls(Digit, 4, 4)>>)
D2 == Grp(<<Cls(Digit, 2, 2)>>)
D12 == Grp(<<Cls(Digit, 1, 2)>>)
Spaces == Cls(Whitespace, 0, Unbounded)
Dot == Lit(<<".">>)
OptDot == Cls({"."}, 0, 1)

weekday_map_no_sunday ==
    (KWol :> <<"M", "o", "n">>) @@ (KHwa :> <<"T", "u", "e">>)
    @@ (KSu :> <<"W", "e", "d">>) @@ (KMok :> <<"T", "h", "u">>)
    @@ (KGeum :> <<"F", "r", "i">>) @@ (KTo :> <<"S", "a", "t">>)

weekday_map_swapped ==
    (KWol :> <<"M", "o", "n">>) @@ (KHwa :> <<"T", "u", "e">>)
    @@ (KSu :> <<"W", "e", "d">>) @@ (KMok :> <<"T", "h", "u">>)
    @@ (KGeum :> <<"F", "r", "i">>) @@ (KTo :> <<"S", "u", "n">>)
    @@ (KIl :> <<"S", "a", "t">>)

weekday_map ==
    (KWol :> <<"M", "o", "n">>) @@ (KHwa :> <<"T", "u", "e">>)
    @@ (KSu :> <<"W", "e", "d">>) @@ (KMok :> <<"T", "h", "u">>)
    @@ (KGeum :> <<"F", "r", "i">>) @@ (KTo :> <<"S", "a", "t">>)
    @@ (KIl :> <<"S", "u", "n">>)

date_patterns ==
    << <<D4, Lit(<<KNyeon>>), Spaces, D12, Lit(<<KWol>>), Spaces, D12, Lit(<<KIl>>)>>,
       <<D4, Dot, Spaces, D12, Dot, Spaces, D12, OptDot>>,
       <<D4, Dot, D12, Dot, D12>>,
       <<D2, Dot, Spaces, D12, Dot, Spaces, D12, OptDot>>,
       <<D2, Dot, D12, Dot, D12>> >>

\* the replacement lambdas of date_patterns
DateReplacement(k, s, m) ==
    (IF k <= 3 THEN <<>> ELSE <<"2", "0">>) \o Group(s, m, 1) \o <<"/">>
        \o Pad2(ToInt(Group(s, m, 2))) \o <<"/">> \o Pad2(ToInt(Group(s, m, 3)))

AmPm == <<Cls({"A", "P"}, 1, 1), Lit(<<"M">>)>>
HourMinute == <<Cls(Digit, 1, 2), Lit(<<":">>), Cls(Digit, 2, 2)>>

time_patterns ==
    << <<NotBehind(Digit), Grp(HourMinute \o <<Spaces>> \o AmPm), NotAhead(Digit)>>,
       <<NotBehind(Digit), Grp(HourMinute \o <<Opt(<<Cls({" "}, 0, 1)>> \o AmPm)>>),
         NotAhead(Digit)>> >>

weekday_time_pattern ==
    <<Grp(<<Cls({KWol, KHwa, KSu, KMok, KGeum, KTo, KIl}, 1, 1)>>), Lit(<<KYo, KIl>>),
      Spaces, Grp(HourMinute \o <<Spaces>> \o AmPm)>>

youtube_pattern ==
    <<Lit(<<"h", "t", "t", "p">>), Cls({"s"}, 0, 1), Lit(<<":", "/", "/">>),
      Opt(<<Lit(<<"w", "w", "w", ".">>)>>),
      Alt(<<Lit(<<"y", "o", "u", "t", "u", "b", "e", ".", "c", "o", "m">>)>>,
          <<Lit(<<"y", "o", "u", "t", "u", ".", "b", "e">>)>>),
      Lit(<<"/">>), NotCls(Whitespace, 1, Unbounded)>>

date_slash_pattern ==
    <<Cls(Digit, 4, 4), Lit(<<"/">>), Cls(Digit, 2, 2), Lit(<<"/">>), Cls(Digit, 2, 2)>>

(***************************************************************************)
(* The steps of clean_line, on a line with its provenance [s, prov]        *)
(***************************************************************************)
SubMarked(mt, ms, reps, tag) ==
    [s |-> SubMatches(mt.s, ms, reps), prov |-> SubProv(mt.prov, ms, reps, tag)]

\* re.sub(pat, rep, s) / str.replace with a constant replacement
SubConstant(mt, pat, rep, tag) ==
    Let(mt, LAMBDA m0 :
        Let(FindAll(pat, m0.s), LAMBDA ms :
            Let(Tuple([j \in 1..Len(ms) |-> rep]), LAMBDA reps :
                SubMarked(m0, ms, reps, tag))))

StripThreeBrackets(mt) == SubConstant(mt, <<Cls({"[", "]", "("}, 1, 1)>>, <<>>, 0)

\* re.sub(r'[\[\]\(\)]', '', line)
StripBrackets(mt) == SubConstant(mt, <<Cls(Brackets, 1, 1)>>, <<>>, 0)

\* one iteration of the loop of process_date_formats: pattern.sub(replacement_func, text)
DateStep(k, mt) ==
    Let(mt, LAMBDA m0 :
        Let(FindAll(date_patterns[k], m0.s), LAMBDA ms :
            Let(Tuple([j \in 1..Len(ms) |-> DateReplacement(k, m0.s, ms[j])]), LAMBDA reps :
                SubMarked(m0, ms, reps, k))))

\* the two re.sub calls that turn the am/pm morphemes into AM and PM
ConvertAmPm(mt) ==
    SubConstant(SubConstant(mt, <<Lit(<<KO, KJeon>>)>>, <<"A", "M">>, 6),
                <<Lit(<<KO, KHu>>)>>, <<"P", "M">>, 6)

\* self.weekday_map[m.group(1)] raises KeyError for a key the map lacks
WeekdayRaises(mt) ==
    Let(mt, LAMBDA m0 :
        Let(FindAll(weekday_time_pattern, m0.s), LAMBDA ms :
            \E j \in 1..Len(ms) : Group(m0.s, ms[j], 1)[1] \notin DOMAIN weekday_map))

\* weekday_time_pattern.sub(lambda m: f"{m.group(2)} {weekday_map[m.group(1)]}", text)
ReorderWeekday(mt) ==
    Let(mt, LAMBDA m0 :
        Let(FindAll(weekday_time_pattern, m0.s), LAMBDA ms :
            Let(Tuple([j \in 1..Len(ms) |->
                          Group(m0.s, ms[j], 2) \o <<" ">>
                              \o weekday_map[Group(m0.s, ms[j], 1)[1]]]), LAMBDA reps :
                SubMarked(m0, ms, reps, 6))))

HasTime(i, s) == Search(time_patterns[i], s) # <<>>
HasSlashDate(s) == Search(date_slash_pattern, s) # <<>>

InjectsIgnoringDate(i, s) == HasTime(i, s)

\* the condition of the loop body of process_time_formats for time pattern i
Injects(i, s) == HasTime(i, s) /\ ~HasSlashDate(s)

\* one iteration of the loop over time_patterns:
\* re.sub(time_pattern, f"{today_str} {time_part}", text), time_part from the first match
InjectToday(i, mt, today) ==
    Let(mt, LAMBDA m0 :
        IF Injects(i, m0.s)
        THEN Let(FindAll(time_patterns[i], m0.s), LAMBDA ms :
                 Let(today \o <<" ">> \o Group(m0.s, ms[1], 1), LAMBDA rep :
                     Let(Tuple([j \in 1..Len(ms) |-> rep]), LAMBDA reps :
                         SubMarked(m0, ms, reps, 6))))
        ELSE m0)

\* process_time_formats up to the loop over time_patterns
BeforeInjection(mt) == ReorderWeekday(ConvertAmPm(mt))

\* process_time_formats (for a text on which the weekday lookup does not raise)
process_time_formats(mt, today) ==
    InjectToday(2, InjectToday(1, BeforeInjection(mt), today), today)

\* the matches remove_youtube_links counts and deletes
YoutubeLinks(s) == FindAll(youtube_pattern, s)

remove_youtube_links_counting_kept(mt) ==
    Let(mt, LAMBDA m0 :
        Let(YoutubeLinks(m0.s), LAMBDA ms :
            Let(SubMarked(m0, ms, Tuple([j \in 1..Len(ms) |-> <<>>]), 0), LAMBDA out :
                <<out, IF IsBlank(out.s) THEN 0 ELSE Len(ms)>>)))

\* remove_youtube_links: (cleaned_text, links_removed)
remove_youtube_links(mt) ==
    Let(mt, LAMBDA m0 :
        Let(YoutubeLinks(m0.s), LAMBDA ms :
            <<SubMarked(m0, ms, Tuple([j \in 1..Len(ms) |-> <<>>]), 0), Len(ms)>>))

SentMessage == <<KBo, KNaen, " ", KMe, KSi, KJi>>
ReplyToYou == <<KI, " ", KHoe, KWon, KNim, KE, KGe, " ", KBo, KNaen, " ", KDap, KJang>>

FinalCleanupOnePhrase(mt) ==
    Let(mt, LAMBDA m0 :
        IF IsBlank(m0.s) THEN m0
        ELSE SubConstant(SubConstant(m0, <<Cls({" "}, 1, Unbounded)>>, <<" ">>, 7),
                         <<Lit(SentMessage)>>, <<KNa>>, 7))

FinalCleanupPairs(mt) ==
    Let(mt, LAMBDA m0 :
        IF IsBlank(m0.s) THEN m0
        ELSE SubConstant(
                 SubConstant(
                     SubConstant(m0, <<Cls({" "}, 2, 2)>>, <<" ">>, 7),
                     <<Lit(SentMessage)>>, <<KNa>>, 7),
                 <<Lit(ReplyToYou)>>, <<KUi>>, 7))

FinalCleanupNoCollapse(mt) ==
    Let(mt, LAMBDA m0 :
        IF IsBlank(m0.s) THEN m0
        ELSE SubConstant(SubConstant(m0, <<Lit(SentMessage)>>, <<KNa>>, 7),
                         <<Lit(ReplyToYou)>>, <<KUi>>, 7))

\* the "if cleaned_line.strip():" block that ends clean_line
FinalCleanup(mt) ==
    Let(mt, LAMBDA m0 :
        IF IsBlank(m0.s) THEN m0
        ELSE SubConstant(
                 SubConstant(
                     SubConstant(m0, <<Cls({" "}, 1, Unbounded)>>, <<" ">>, 7),
                     <<Lit(SentMessage)>>, <<KNa>>, 7),
                 <<Lit(ReplyToYou)>>, <<KUi>>, 7))

\* a line boundary: "\r\n", or one line break character
LineBoundary == <<Alt(<<Lit(<<"\r", "\n">>)>>, <<Cls(LineBreaks, 1, 1)>>)>>

\* str.splitlines: the text between the boundaries, without an empty last line
splitlines(s) ==
    Let(FindAll(LineBoundary, s), LAMBDA bs :
        Let(IF bs = <<>> THEN 0 ELSE bs[Len(bs)].end, LAMBDA last :
            Let(Tuple([j \in 1..Len(bs) |->
                         Slice(s, IF j = 1 THEN 0 ELSE bs[j - 1].end, bs[j].start)]),
                LAMBDA ended :
                    IF last < Len(s) THEN Append(ended, Slice(s, last, Len(s)))
                    ELSE ended)))

(***************************************************************************)
(* Inputs: every text that is a concatenation of at most n fragments       *)
(***************************************************************************)
Texts(frags, n) == UNION {{Flatten(t) : t \in [1..j -> frags]} : j \in 0..n}

MaxFrags == 3
MaxLinkFrags == 3
MaxDateFrags == 2
MaxTimeFrags == 3
MaxDay == 2

\* text in brackets, brackets, line breaks, control characters, a link, a weekday time
Fragments ==
    {<<"[", "a", "]">>,
     <<"(">>,
     <<")">>,
     <<" ">>,
     <<"\n">>,
     <<"\r">>,
     <<"\f">>,
     <<"\t">>,
     <<"h", "t", "t", "p", "s", ":", "/", "/", "y", "o", "u", "t", "u", ".", "b", "e", "/", "x">>,
     <<KIl, KYo, KIl, " ", "3", ":", "0", "5", " ", "P", "M">>}

\* text around links, links, a query with a time, a bare link prefix
LinkFragments ==
    {<<"c", "h", "e", "c", "k", " ", "t", "h", "i", "s", " ">>,
     <<" ", "o", "u", "t">>,
     <<"h", "t", "t", "p", "s", ":", "/", "/", "y", "o", "u", "t", "u", ".", "b", "e", "/", "a", "b", "c", "1", "2", "3">>,
     <<"h", "t", "t", "p", ":", "/", "/", "w", "w", "w", ".", "y", "o", "u", "t", "u", "b", "e", ".", "c", "o", "m", "/", "w">>,
     <<"?", "t", "=", "1", ":", "3", "0">>,
     <<"h", "t", "t", "p", "s", ":", "/", "/", "y", "o", "u", "t", "u", ".", "b", "e", "/">>,
     <<"[">>,
     <<" ">>,
     <<"\n">>}

\* a date of form f (the order of date_patterns) for a year y >= 2000, month m, day d
DateText(f, y, m, d) ==
    CASE f = 1 -> ToStr(y) \o <<KNyeon, " ">> \o ToStr(m) \o <<KWol, " ">> \o ToStr(d) \o <<KIl>>
      [] f = 2 -> ToStr(y) \o <<".", " ">> \o ToStr(m) \o <<".", " ">> \o ToStr(d) \o <<".">>
      [] f = 3 -> ToStr(y) \o <<".">> \o ToStr(m) \o <<".">> \o ToStr(d)
      [] f = 4 -> ToStr(y % 100) \o <<".", " ">> \o ToStr(m) \o <<".", " ">> \o ToStr(d) \o <<".">>
      [] f = 5 -> ToStr(y % 100) \o <<".">> \o ToStr(m) \o <<".">> \o ToStr(d)

SampleDates == {<<2025, 6, 2>>, <<2025, 12, 25>>, <<2031, 6, 25>>, <<2031, 12, 2>>}

DateFragments ==
    {DateText(f, ymd[1], ymd[2], ymd[3]) : f \in 1..5, ymd \in SampleDates}
    \cup {<<" ">>, <<".">>, <<"5">>, <<"a">>, <<"\n">>}

\* weekday times, times, am/pm, dates, a number
TimeFragments ==
    {<<KWol, KYo, KIl, " ", "3", ":", "0", "5", " ", "P", "M">>,
     <<"3", ":", "0", "5">>,
     <<" ", "P", "M">>,
     <<KO, KHu, " ">>,
     <<"2", "0", "2", "5", ".", " ", "6", ".", " ", "2", ".", " ">>,
     <<"2", "0", "2", "5", "/", "0", "6", "/", "0", "2", " ">>,
     <<"1", "5">>,
     <<"1", "2", ":", "3", "0">>,
     <<" ">>,
     <<"\n">>}

WeekdayChars == {KWol, KHwa, KSu, KMok, KGeum, KTo, KIl}
ClockTimes == {<<"3", ":", "0", "5">>, <<"1", "2", ":", "3", "0">>}

\* a line '<w>요일 <t> AM' or '<w>요일 <t> PM'
WeekdayLine(w, t, ap) == <<w, KYo, KIl, " ">> \o t \o <<" ", ap, "M">>

WeekdayLines == {WeekdayLine(w, t, ap) : w \in WeekdayChars, t \in ClockTimes, ap \in {"A", "P"}}

(***************************************************************************)
(* process_text as a state machine.  pc is the place in process_text and   *)
(* in the clean_line call it makes for the current line:                   *)
(*   "split"    before text.splitlines()                                   *)
(*   "loop"     at the head of "for line in lines"                         *)
(*   "brackets" "date" "time" "links" "cleanup"   the steps of clean_line  *)
(*   "append"   clean_line has returned                                    *)
(*   "done"     process_text has returned (cleaned_lines, total)           *)
(*   "raised"   an exception left process_text                             *)
(***************************************************************************)
VARIABLES
    text,           \* the argument of process_text
    lines,          \* text.splitlines()
    idx,            \* the number of the line the loop is at (0 before the first)
    pc,
    cleaned_line,   \* the local of clean_line
    prov,           \* the provenance of each character of cleaned_line
    k,              \* the index of the next pattern in the loop of process_date_formats
    clock,          \* the day of the month datetime.now() is in
    cleaned_lines,  \* the result list
    total,          \* total_youtube_links_removed
    date_in,        \* the argument of the last process_date_formats call
    time_in,        \* the argument of the last process_time_formats call
    injected,       \* the time patterns whose loop body ran in that call
    deleted,        \* the number of links clean_line has deleted so far
    src             \* src[j] is the number of the line cleaned_lines[j] came from

\* the number of the process_text call: the caller may call it again on its result
VARIABLES run

\* the guideline registry (GuidelineManager) and the files it reads and writes
VARIABLES
    frozen,           \* hasattr(sys, 'frozen')
    files,            \* what is at each path guidelines.json may be at
    guidelines_file,  \* self.guidelines_file
    guidelines,       \* self.guidelines, in insertion order
    rpc,              \* the place in GuidelineManager's code
    path_no,          \* the index in possible_paths of the loop of load_guidelines
    last              \* the last call of a method, what it returned and what it found

registry == <<frozen, files, guidelines_file, guidelines, rpc, path_no, last>>

\* the application (TextCleanerApp): its UI thread, its clean workers, its widgets
VARIABLES
    processing,         \* self.processing
    lock,               \* self._processing_lock is held
    clean_button,       \* the state of self.clean_button
    ui,                 \* the place of the UI thread in _clean_text
    input_text,         \* what the input widget holds
    current_guideline,  \* self.current_guideline
    text_cache,         \* self._text_cache, in insertion order
    workers,            \* the clean worker threads that are alive
    after,              \* the callbacks root.after(0, ...) has queued
    shown,              \* what the last callback put on the screen
    event,              \* the last UI handler that ran and what came of it
    runs,               \* the number of Clean runs that have begun
    edits               \* the number of changes the editors have made

app == <<processing, lock, clean_button, ui, input_text, current_guideline, text_cache,
         workers, after, shown, event, runs, edits>>

vars == <<text, lines, idx, pc, cleaned_line, prov, k, clock, cleaned_lines, total,
          date_in, time_in, injected, deleted, src, run, registry, app>>

\* no TextCleanerApp has been made
NoApp ==
    /\ processing = FALSE
    /\ lock = FALSE
    /\ clean_button = "normal"
    /\ ui = "none"
    /\ input_text = <<>>
    /\ current_guideline = "None"
    /\ text_cache = <<>>
    /\ workers = <<>>
    /\ after = <<>>
    /\ shown = <<>>
    /\ event = <<>>
    /\ runs = 0
    /\ edits = 0

\* no GuidelineManager has been made
NoRegistry ==
    /\ frozen = FALSE
    /\ files = <<>>
    /\ guidelines_file = "none"
    /\ guidelines = <<>>
    /\ rpc = "none"
    /\ path_no = 0
    /\ last = <<>>

\* datetime.datetime.now().strftime("%Y/%m/%d") on day d of the month
today_str(d) == <<"2", "0", "2", "6", "/", "1", "1", "/">> \o Pad2(d)

Marked == [s |-> cleaned_line, prov |-> prov]

\* the characters of a YouTube URL of the line as it was given
InputProv(line) ==
    Let(YoutubeLinks(line), LAMBDA ms :
        Tuple([i \in 1..Len(line) |->
                  [url |-> \E j \in 1..Len(ms) : ms[j].start < i /\ i <= ms[j].end,
                   by |-> 0]]))

InitWith(inputs) ==
    /\ text \in inputs
    /\ lines = <<>>
    /\ idx = 0
    /\ pc = "split"
    /\ cleaned_line = <<>>
    /\ prov = <<>>
    /\ k = 1
    /\ clock = 1
    /\ cleaned_lines = <<>>
    /\ total = 0
    /\ date_in = <<>>
    /\ time_in = <<>>
    /\ injected = {}
    /\ deleted = 0
    /\ src = <<>>
    /\ run = 1
    /\ NoRegistry
    /\ NoApp

\* lines = text.splitlines()
SplitLines ==
    /\ pc = "split"
    /\ lines' = splitlines(text)
    /\ pc' = "loop"
    /\ UNCHANGED <<text, idx, cleaned_line, prov, k, clock, cleaned_lines, total,
                   date_in, time_in, injected, deleted, src>>
    /\ UNCHANGED <<run, registry, app>>

\* "if not line.strip(): continue"
SkipBlankLine ==
    /\ pc = "loop"
    /\ idx < Len(lines)
    /\ IsBlank(lines[idx + 1])
    /\ idx' = idx + 1
    /\ UNCHANGED <<text, lines, pc, cleaned_line, prov, k, clock, cleaned_lines, total,
                   date_in, time_in, injected, deleted, src>>
    /\ UNCHANGED <<run, registry, app>>

\* "_, links_removed = self.remove_youtube_links(line)" and the entry of clean_line(line)
CountLinks ==
    /\ pc = "loop"
    /\ idx < Len(lines)
    /\ ~IsBlank(lines[idx + 1])
    /\ idx' = idx + 1
    /\ total' = total + remove_youtube_links([s |-> lines[idx + 1],
                                              prov |-> InputProv(lines[idx + 1])])[2]
    /\ cleaned_line' = lines[idx + 1]
    /\ prov' = InputProv(lines[idx + 1])
    /\ pc' = "brackets"
    /\ UNCHANGED <<text, lines, k, clock, cleaned_lines, date_in, time_in, injected,
                   deleted, src>>
    /\ UNCHANGED <<run, registry, app>>

\* "cleaned_line = re.sub(r'[\[\]\(\)]', '', line)" and the entry of process_date_formats
StripBracketsStep ==
    /\ pc = "brackets"
    /\ \E out \in {StripBrackets(Marked)} :
          /\ cleaned_line' = out.s
          /\ prov' = out.prov
          /\ date_in' = out.s
    /\ k' = 1
    /\ pc' = "date"
    /\ UNCHANGED <<text, lines, idx, clock, cleaned_lines, total, time_in, injected,
                   deleted, src>>
    /\ UNCHANGED <<run, registry, app>>

\* one iteration of "for pattern, replacement_func in self.date_patterns"
DatePatternStep ==
    /\ pc = "date"
    /\ \E out \in {DateStep(k, Marked)} :
          /\ cleaned_line' = out.s
          /\ prov' = out.prov
    /\ IF k < Len(date_patterns)
       THEN k' = k + 1 /\ pc' = "date"
       ELSE k' = k /\ pc' = "time"
    /\ UNCHANGED <<text, lines, idx, clock, cleaned_lines, total, date_in, time_in,
                   injected, deleted, src>>
    /\ UNCHANGED <<run, registry, app>>

\* process_time_formats, which reads the clock; a KeyError of the weekday lookup
\* leaves process_text
TimeFormats ==
    /\ pc = "time"
    /\ clock' \in clock..MaxDay
    /\ time_in' = cleaned_line
    /\ IF WeekdayRaises(ConvertAmPm(Marked))
       THEN /\ pc' = "raised"
            /\ UNCHANGED <<cleaned_line, prov, injected>>
       ELSE \E before \in {BeforeInjection(Marked)} :
            \E first \in {InjectToday(1, before, today_str(clock'))} :
            \E out \in {InjectToday(2, first, today_str(clock'))} :
                /\ cleaned_line' = out.s
                /\ prov' = out.prov
                /\ injected' = {i \in {1} : Injects(1, before.s)}
                                  \cup {i \in {2} : Injects(2, first.s)}
                /\ pc' = "links"
    /\ UNCHANGED <<text, lines, idx, k, cleaned_lines, total, date_in, deleted, src>>
    /\ UNCHANGED <<run, registry, app>>

\* "cleaned_line, _ = self.remove_youtube_links(cleaned_line)"; remove_name_emojis
\* returns its argument
RemoveLinks ==
    /\ pc = "links"
    /\ \E out \in {remove_youtube_links(Marked)} :
          /\ cleaned_line' = out[1].s
          /\ prov' = out[1].prov
          /\ deleted' = deleted + out[2]
    /\ pc' = "cleanup"
    /\ UNCHANGED <<text, lines, idx, k, clock, cleaned_lines, total, date_in, time_in,
                   injected, src>>
    /\ UNCHANGED <<run, registry, app>>

\* the "if cleaned_line.strip():" block and the return of clean_line
Cleanup ==
    /\ pc = "cleanup"
    /\ \E out \in {FinalCleanup(Marked)} :
          /\ cleaned_line' = out.s
          /\ prov' = out.prov
    /\ pc' = "append"
    /\ UNCHANGED <<text, lines, idx, k, clock, cleaned_lines, total, date_in, time_in,
                   injected, deleted, src>>
    /\ UNCHANGED <<run, registry, app>>

AppendLineUnchecked ==
    /\ pc = "append"
    /\ cleaned_lines' = Append(cleaned_lines, cleaned_line)
    /\ src' = Append(src, idx)
    /\ pc' = "loop"
    /\ UNCHANGED <<text, lines, idx, cleaned_line, prov, k, clock, total, date_in,
                   time_in, injected, deleted>>
    /\ UNCHANGED <<run, registry, app>>

\* "if cleaned_line.strip(): cleaned_lines.append(cleaned_line)"
AppendLine ==
    /\ pc = "append"
    /\ IF IsBlank(cleaned_line)
       THEN UNCHANGED <<cleaned_lines, src>>
       ELSE /\ cleaned_lines' = Append(cleaned_lines, cleaned_line)
            /\ src' = Append(src, idx)
    /\ pc' = "loop"
    /\ UNCHANGED <<text, lines, idx, cleaned_line, prov, k, clock, total, date_in,
                   time_in, injected, deleted>>
    /\ UNCHANGED <<run, registry, app>>

\* "return cleaned_lines, total_youtube_links_removed"
Return ==
    /\ pc = "loop"
    /\ idx = Len(lines)
    /\ pc' = "done"
    /\ UNCHANGED <<text, lines, idx, cleaned_line, prov, k, clock, cleaned_lines, total,
                   date_in, time_in, injected, deleted, src>>
    /\ UNCHANGED <<run, registry, app>>

Next ==
    \/ SplitLines
    \/ SkipBlankLine
    \/ CountLinks
    \/ StripBracketsStep
    \/ DatePatternStep
    \/ TimeFormats
    \/ RemoveLinks
    \/ Cleanup
    \/ AppendLine
    \/ Return

\* process_text on texts of plain characters, brackets, line breaks and a link
Init == InitWith(Texts(Fragments, MaxFrags))
Spec == Init /\ [][Next]_vars

\* process_text on texts with links
InitLink == InitWith(Texts(LinkFragments, MaxLinkFrags))
SpecLink == InitLink /\ [][Next]_vars

\* process_text on texts with dates
InitDate == InitWith(Texts(DateFragments, MaxDateFrags))
SpecDate == InitDate /\ [][Next]_vars

\* process_text on texts with times
InitTime == InitWith(Texts(TimeFragments, MaxTimeFrags) \cup WeekdayLines)
SpecTime == InitTime /\ [][Next]_vars

MaxTwiceFrags == 3

\* links, a query with a time, weekday times, times, am/pm, dates
TwiceFragments ==
    {<<"h", "t", "t", "p", "s", ":", "/", "/", "y", "o", "u", "t", "u", ".", "b", "e", "/", "a", "b", "c", "1", "2", "3">>,
     <<"?", "t", "=", "1", ":", "3", "0">>,
     <<KWol, KYo, KIl, " ", "3", ":", "0", "5", " ", "P", "M">>,
     <<"3", ":", "0", "5">>,
     <<KO, KHu, " ">>,
     <<"2", "0", "2", "5", ".", " ", "6", ".", " ", "2", ".", " ">>,
     <<"2", "5", ".", "6", ".", "2">>,
     <<" ">>,
     <<"\n">>}

\* "\n".join(ls)
JoinLines(ls) ==
    Flatten([i \in 1..(2 * Len(ls) - 1) |->
                IF i % 2 = 1 THEN ls[(i + 1) \div 2] ELSE <<"\n">>])

\* the caller gives the lines process_text returned to process_text again
RunAgain ==
    /\ pc = "done"
    /\ run = 1
    /\ run' = 2
    /\ text' = JoinLines(cleaned_lines)
    /\ lines' = <<>>
    /\ idx' = 0
    /\ pc' = "split"
    /\ cleaned_line' = <<>>
    /\ prov' = <<>>
    /\ k' = 1
    /\ cleaned_lines' = <<>>
    /\ total' = 0
    /\ date_in' = <<>>
    /\ time_in' = <<>>
    /\ injected' = {}
    /\ deleted' = 0
    /\ src' = <<>>
    /\ UNCHANGED <<clock, registry, app>>

NextTwice ==
    \/ SplitLines
    \/ SkipBlankLine
    \/ CountLinks
    \/ StripBracketsStep
    \/ DatePatternStep
    \/ TimeFormats
    \/ RemoveLinks
    \/ Cleanup
    \/ AppendLine
    \/ Return
    \/ RunAgain

\* process_text, then process_text on what it returned
InitTwice == InitWith(Texts(TwiceFragments, MaxTwiceFrags))
SpecTwice == InitTwice /\ [][NextTwice]_vars

MaxPhraseFrags == 3

\* the two phrases clean_line replaces, their parts, text, a bracket, a link
PhraseFragments ==
    {SentMessage,
     ReplyToYou,
     <<KBo, KNaen>>,
     <<KMe, KSi, KJi>>,
     <<" ">>,
     <<"a">>,
     <<"[">>,
     <<"h", "t", "t", "p", "s", ":", "/", "/", "y", "o", "u", "t", "u", ".", "b", "e", "/", "x">>,
     <<"\n">>}

\* process_text on texts with the phrases of the final cleanup
InitPhrase == InitWith(Texts(PhraseFragments, MaxPhraseFrags))
SpecPhrase == InitPhrase /\ [][Next]_vars

(***************************************************************************)
(* GuidelineManager.  self.guidelines is a dict: here the sequence of its   *)
(* entries [name, description, rules] in insertion order.  rpc is the place *)
(* in the code:                                                            *)
(*   "init"   before GuidelineManager(user_data_path)                      *)
(*   "load"   in the loop of load_guidelines, at possible_paths[path_no]    *)
(*   "ready"  between two calls of the methods                             *)
(***************************************************************************)
textvars == <<text, lines, idx, pc, cleaned_line, prov, k, clock, cleaned_lines, total,
              date_in, time_in, injected, deleted, src, run>>

\* "기본" and "기본 텍스트 정리 규칙"
DefaultName == "U+AE30 U+BCF8"
DefaultDescription == "U+AE30 U+BCF8 U+D14D U+C2A4 U+D2B8 U+C815 U+B9AC U+ADDC U+CE59"

default_guidelines_short ==
    << [name |-> DefaultName,
        description |-> DefaultDescription,
        rules |-> <<"Remove empty lines", "Remove YouTube links", "Trim whitespace",
                    "Remove name emojis", "Unify date formats", "Unify time formats",
                    "Convert weekdays", "Clean message format">>] >>

default_guidelines ==
    << [name |-> DefaultName,
        description |-> DefaultDescription,
        rules |-> <<"Remove empty lines", "Remove YouTube links", "Trim whitespace",
                    "Remove name emojis", "Unify date formats", "Unify time formats",
                    "Convert weekdays", "Clean message format",
                    "Clean special characters">>] >>

\* the value None, which is no guideline
None == [none |-> TRUE]

\* list(d.keys())
Keys(g) == [i \in 1..Len(g) |-> g[i].name]

\* name in d
HasKey(g, name) == \E i \in 1..Len(g) : g[i].name = name

\* d.get(name)
DictGet(g, name) ==
    IF HasKey(g, name)
    THEN LET e == g[CHOOSE i \in 1..Len(g) : g[i].name = name]
         IN  [description |-> e.description, rules |-> e.rules]
    ELSE None

DictSetDefault(g, name, description, rules) ==
    IF HasKey(g, name) THEN g
    ELSE Append(g, [name |-> name, description |-> description, rules |-> rules])

DictSetMovesLast(g, name, description, rules) ==
    Append(SelectSeq(g, LAMBDA e : e.name # name),
           [name |-> name, description |-> description, rules |-> rules])

DictSetKeepsDescription(g, name, description, rules) ==
    IF HasKey(g, name)
    THEN [i \in 1..Len(g) |->
             IF g[i].name = name
             THEN [name |-> name, description |-> g[i].description, rules |-> rules]
             ELSE g[i]]
    ELSE Append(g, [name |-> name, description |-> description, rules |-> rules])

\* d[name] = {"description": description, "rules": rules}: a new key goes last, a
\* key the dict has keeps its place
DictSet(g, name, description, rules) ==
    IF HasKey(g, name)
    THEN [i \in 1..Len(g) |->
             IF g[i].name = name
             THEN [name |-> name, description |-> description, rules |-> rules]
             ELSE g[i]]
    ELSE Append(g, [name |-> name, description |-> description, rules |-> rules])

DictDelAll(g, name) == <<>>

\* del d[name]
DictDel(g, name) == SelectSeq(g, LAMBDA e : e.name # name)

\* what is at a path: no file, a file that cannot be opened (PermissionError), a
\* file that is not JSON (JSONDecodeError), a file that is not UTF-8
\* (UnicodeDecodeError), or a file with the JSON of a mapping
Absent == [kind |-> "absent", data |-> <<>>]
Denied == [kind |-> "denied", data |-> <<>>]
NotJson == [kind |-> "notjson", data |-> <<>>]
NotUtf8 == [kind |-> "notutf8", data |-> <<>>]

\* json.dump(d, f, ensure_ascii=False, indent=2) and json.load(f) of it: names,
\* descriptions and rules are strings, which JSON keeps, as it keeps the order of
\* the keys of an object and of the items of a list
JsonFile(g) == [kind |-> "json", data |-> g]

\* path.exists()
Exists(path) == files[path].kind # "absent"

\* possible_paths of load_guidelines
possible_paths ==
    IF frozen THEN <<"exe", "parent", "user">> ELSE <<"script", "user">>

\* a call and what it returned
Call(op, name, description, rules, ret) ==
    [op |-> op, name |-> name, description |-> description, rules |-> rules, ret |-> ret]

\* the arguments of the calls: names, and a description with a list of rules
Names == {DefaultName, "x"}
Guides == {[description |-> "d", rules |-> <<"r1", "r2">>],
           [description |-> "e", rules |-> <<"r2", "r1">>]}

\* the files at startup, path by path
StartFiles ==
    [exe |-> {Absent, JsonFile(<<[name |-> "x", description |-> "d", rules |-> <<"r1", "r2">>]>>)},
     parent |-> {Absent, NotJson},
     script |-> {Absent, NotJson, NotUtf8},
     user |-> {Absent, Denied, JsonFile(<<>>),
               JsonFile(<<[name |-> "x", description |-> "d", rules |-> <<"r1", "r2">>]>>)}]

\* __init__ up to the call of load_guidelines
Construct ==
    /\ rpc = "init"
    /\ guidelines_file' = IF frozen /\ Exists("exe") THEN "exe" ELSE "user"
    /\ guidelines' = <<>>
    /\ path_no' = 1
    /\ rpc' = "load"
    /\ last' = Call("__init__", "-", "-", <<>>, "-")
    /\ UNCHANGED <<frozen, files, textvars, app>>

\* a call of load_guidelines on the manager
Reload ==
    /\ rpc = "ready"
    /\ path_no' = 1
    /\ rpc' = "load"
    /\ last' = Call("load_guidelines", "-", "-", <<>>, "-")
    /\ UNCHANGED <<frozen, files, guidelines_file, guidelines, textvars, app>>

\* one iteration of "for path in possible_paths"
TryPath ==
    /\ rpc = "load"
    /\ path_no <= Len(possible_paths)
    /\ LET path == possible_paths[path_no]
           file == files[path]
       IN  CASE file.kind = "json" ->
                    /\ guidelines' = file.data
                    /\ guidelines_file' = path
                    /\ rpc' = "ready"
                    /\ last' = [last EXCEPT !.ret = TRUE]
                    /\ UNCHANGED path_no
             [] file.kind \in {"absent", "denied", "notjson"} ->
                    /\ path_no' = path_no + 1
                    /\ UNCHANGED <<guidelines, guidelines_file, rpc, last>>
             [] file.kind = "notutf8" ->
                    /\ rpc' = "ready"
                    /\ last' = [last EXCEPT !.ret = FALSE]
                    /\ UNCHANGED <<guidelines, guidelines_file, path_no>>
    /\ UNCHANGED <<frozen, files, textvars, app>>

\* save_guidelines: the file is written, or open() fails and the file is as it
\* was, or the write fails after open() has truncated the file
Saved(ok) ==
    \/ ok = TRUE /\ files' = [files EXCEPT ![guidelines_file] = JsonFile(guidelines')]
    \/ ok = FALSE /\ UNCHANGED files
    \/ ok = FALSE /\ files' = [files EXCEPT ![guidelines_file] = NotJson]

\* no file was read: create_default_guidelines
CreateDefault ==
    /\ rpc = "load"
    /\ path_no > Len(possible_paths)
    /\ guidelines' = default_guidelines
    /\ \E ok \in BOOLEAN : Saved(ok)
    /\ rpc' = "ready"
    /\ last' = [last EXCEPT !.ret = TRUE]
    /\ UNCHANGED <<frozen, guidelines_file, path_no, textvars, app>>

get_guideline_names ==
    /\ rpc = "ready"
    /\ last' = Call("get_guideline_names", "-", "-", <<>>, Keys(guidelines))
    /\ UNCHANGED <<frozen, files, guidelines_file, guidelines, rpc, path_no, textvars, app>>

get_guideline ==
    /\ rpc = "ready"
    /\ \E name \in Names :
          last' = Call("get_guideline", name, "-", <<>>, DictGet(guidelines, name))
    /\ UNCHANGED <<frozen, files, guidelines_file, guidelines, rpc, path_no, textvars, app>>

add_guideline_rolled_back ==
    /\ rpc = "ready"
    /\ \E name \in Names, g \in Guides, ok \in BOOLEAN :
          /\ guidelines' = IF ok THEN DictSet(guidelines, name, g.description, g.rules)
                                 ELSE guidelines
          /\ Saved(ok)
          /\ last' = Call("add_guideline", name, g.description, g.rules, ok)
    /\ UNCHANGED <<frozen, guidelines_file, rpc, path_no, textvars, app>>

add_guideline ==
    /\ rpc = "ready"
    /\ \E name \in Names, g \in Guides, ok \in BOOLEAN :
          /\ guidelines' = DictSet(guidelines, name, g.description, g.rules)
          /\ Saved(ok)
          /\ last' = Call("add_guideline", name, g.description, g.rules, ok)
    /\ UNCHANGED <<frozen, guidelines_file, rpc, path_no, textvars, app>>

update_guideline ==
    /\ rpc = "ready"
    /\ \E name \in Names, g \in Guides, ok \in BOOLEAN :
          /\ guidelines' = DictSet(guidelines, name, g.description, g.rules)
          /\ Saved(ok)
          /\ last' = Call("update_guideline", name, g.description, g.rules, ok)
    /\ UNCHANGED <<frozen, guidelines_file, rpc, path_no, textvars, app>>

delete_guideline_saving ==
    /\ rpc = "ready"
    /\ \E name \in Names, ok \in BOOLEAN :
          /\ guidelines' = DictDel(guidelines, name)
          /\ Saved(ok)
          /\ last' = Call("delete_guideline", name, "-", <<>>, ok /\ HasKey(guidelines, name))
    /\ UNCHANGED <<frozen, guidelines_file, rpc, path_no, textvars, app>>

delete_guideline ==
    /\ rpc = "ready"
    /\ \E name \in Names :
          IF HasKey(guidelines, name)
          THEN \E ok \in BOOLEAN :
                  /\ guidelines' = DictDel(guidelines, name)
                  /\ Saved(ok)
                  /\ last' = Call("delete_guideline", name, "-", <<>>, ok)
          ELSE /\ last' = Call("delete_guideline", name, "-", <<>>, FALSE)
               /\ UNCHANGED <<guidelines, files>>
    /\ UNCHANGED <<frozen, guidelines_file, rpc, path_no, textvars, app>>

has_guidelines ==
    /\ rpc = "ready"
    /\ last' = Call("has_guidelines", "-", "-", <<>>, Len(guidelines) > 0)
    /\ UNCHANGED <<frozen, files, guidelines_file, guidelines, rpc, path_no, textvars, app>>

NextRegistry ==
    \/ Construct
    \/ Reload
    \/ TryPath
    \/ CreateDefault
    \/ get_guideline_names
    \/ get_guideline
    \/ add_guideline
    \/ update_guideline
    \/ delete_guideline
    \/ has_guidelines

\* no process_text call is made
NoText ==
    /\ text = <<>>
    /\ lines = <<>>
    /\ idx = 0
    /\ pc = "none"
    /\ cleaned_line = <<>>
    /\ prov = <<>>
    /\ k = 1
    /\ clock = 1
    /\ cleaned_lines = <<>>
    /\ total = 0
    /\ date_in = <<>>
    /\ time_in = <<>>
    /\ injected = {}
    /\ deleted = 0
    /\ src = <<>>
    /\ run = 1

\* a GuidelineManager is made, as a script or as a frozen executable, with any of
\* the start files at the paths it looks at, and its methods are called
InitRegistry ==
    /\ NoText
    /\ frozen \in BOOLEAN
    /\ files \in [DOMAIN StartFiles -> UNION {StartFiles[p] : p \in DOMAIN StartFiles}]
    /\ \A p \in DOMAIN files : files[p] \in StartFiles[p]
    /\ \A p \in DOMAIN files : (\A i \in 1..Len(possible_paths) : possible_paths[i] # p)
                                  => files[p] = Absent
    /\ guidelines_file = "none"
    /\ guidelines = <<>>
    /\ rpc = "init"
    /\ path_no = 0
    /\ last = Call("-", "-", "-", <<>>, "-")
    /\ NoApp

SpecRegistry == InitRegistry /\ [][NextRegistry]_vars

(***************************************************************************)
(* process_text as a function, for its callers: what one call returns on a  *)
(* text when datetime.now() is on the day `today` throughout the call       *)
(***************************************************************************)
RECURSIVE DateSteps(_, _)
\* process_date_formats: the first n patterns of date_patterns, in order
DateSteps(n, mt) == IF n = 0 THEN mt ELSE DateStep(n, DateSteps(n - 1, mt))

\* clean_line(line): the cleaned line, or raised when the weekday lookup raises
clean_line(line, today) ==
    Let(DateSteps(Len(date_patterns),
                  StripBrackets([s |-> line, prov |-> InputProv(line)])), LAMBDA dated :
        IF WeekdayRaises(ConvertAmPm(dated))
        THEN [raised |-> TRUE, s |-> <<>>]
        ELSE [raised |-> FALSE,
              s |-> FinalCleanup(
                        remove_youtube_links(process_time_formats(dated, today))[1]).s])

RECURSIVE SumOf(_)
SumOf(ns) == IF ns = <<>> THEN 0 ELSE Head(ns) + SumOf(Tail(ns))

\* process_text(text): [raised, lines, total] for (cleaned_lines, total)
process_text(txt, today) ==
    Let(SelectSeq(splitlines(txt), LAMBDA line : ~IsBlank(line)), LAMBDA inked :
        Let(Tuple([i \in 1..Len(inked) |-> clean_line(inked[i], today)]), LAMBDA cleaned :
            IF \E i \in 1..Len(cleaned) : cleaned[i].raised
            THEN [raised |-> TRUE, lines |-> <<>>, total |-> 0]
            ELSE Let(SelectSeq(cleaned, LAMBDA c : ~IsBlank(c.s)), LAMBDA kept :
                     [raised |-> FALSE,
                      lines |-> Tuple([j \in 1..Len(kept) |-> kept[j].s]),
                      total |-> SumOf(Tuple([i \in 1..Len(inked) |->
                          remove_youtube_links([s |-> inked[i],
                                                prov |-> InputProv(inked[i])])[2]]))])))

(***************************************************************************)
(* TextCleanerApp: the Clean button, the worker thread it starts, the       *)
(* result cache, the callbacks the worker queues for the UI thread, and the *)
(* guideline editors.  Rule labels are sequences of characters here, as the *)
(* code looks for a text inside them.                                       *)
(***************************************************************************)
MaxRuns == 2
MaxEdits == 2

BATCH_SIZE == 1000
MAX_TEXT_LENGTH == 100000
CacheLimit == 100
HashRange == 8

\* part in s, for two strings
InStr(part, s) == \E i \in 0..(Len(s) - Len(part)) : IsPrefixAt(part, s, i)

RemoveEmptyLines == <<"R", "e", "m", "o", "v", "e", " ", "e", "m", "p", "t", "y", " ", "l", "i", "n", "e", "s">>

DropBlankLinesStripping(txt) ==
    Let(SelectSeq(splitlines(txt), LAMBDA line : ~IsBlank(line)), LAMBDA kept :
        JoinLines(Tuple([j \in 1..Len(kept) |-> Strip(kept[j])])))

\* one pass of the loop of _apply_guideline_rules on a rule that names
\* "Remove empty lines"
DropBlankLines(txt) == JoinLines(SelectSeq(splitlines(txt), LAMBDA line : ~IsBlank(line)))

RECURSIVE ApplyRules(_, _)
\* the loop of _apply_guideline_rules over the rules: [text, applied]
ApplyRules(txt, rules) ==
    IF rules = <<>> THEN [text |-> txt, applied |-> <<>>]
    ELSE Let(ApplyRules(txt, SubSeq(rules, 1, Len(rules) - 1)), LAMBDA done :
             IF InStr(RemoveEmptyLines, rules[Len(rules)])
             THEN [text |-> DropBlankLines(done.text),
                   applied |-> Append(done.applied, rules[Len(rules)])]
             ELSE done)

\* "self.current_guideline and self.current_guideline in self.guidelines"
Selected(cg, g) == cg # "None" /\ cg # "" /\ HasKey(g, cg)

\* _apply_guideline_rules(text) for the current guideline cg and the mapping g
_apply_guideline_rules(txt, cg, g) ==
    IF ~Selected(cg, g) THEN [text |-> txt, applied |-> <<>>]
    ELSE ApplyRules(txt, DictGet(g, cg).rules)

\* hash(text): the same for the same text, and not one-to-one
hash(txt) == Len(txt) % HashRange

\* f"{hash(text)}_{self.current_guideline}"; None is formatted as "None"
cache_key(txt, cg) == <<hash(txt), "_", cg>>

CacheHas(c, key) == \E i \in 1..Len(c) : c[i].key = key
CacheGet(c, key) == c[CHOOSE i \in 1..Len(c) : c[i].key = key].value

\* the two statements of lines 601-607: the assignment, then the oldest entry
\* goes when there are more than CacheLimit
CachePut(c, key, value) ==
    Let(IF CacheHas(c, key)
        THEN Tuple([i \in 1..Len(c) |->
                       IF c[i].key = key THEN [key |-> key, value |-> value] ELSE c[i]])
        ELSE Append(c, [key |-> key, value |-> value]), LAMBDA put :
        IF Len(put) > CacheLimit THEN Tail(put) ELSE put)

_optimize_text_processing_uncached(txt, cg, c) ==
    IF Len(txt) > MAX_TEXT_LENGTH THEN Slice(txt, 0, MAX_TEXT_LENGTH) ELSE txt

\* _optimize_text_processing(text): the text cut to MAX_TEXT_LENGTH, or what the
\* cache holds under its key
_optimize_text_processing(txt, cg, c) ==
    Let(IF Len(txt) > MAX_TEXT_LENGTH THEN Slice(txt, 0, MAX_TEXT_LENGTH) ELSE txt,
        LAMBDA cut :
            IF CacheHas(c, cache_key(cut, cg)) THEN CacheGet(c, cache_key(cut, cg))
            ELSE cut)

\* _batch_process_text(text), for a text of more than BATCH_SIZE lines
_batch_process_text(txt) ==
    Let(splitlines(txt), LAMBDA ls :
        IF Len(ls) <= BATCH_SIZE THEN ls
        ELSE Tuple([b \in 1..((Len(ls) + BATCH_SIZE - 1) \div BATCH_SIZE) |->
                       JoinLines(Slice(ls, (b - 1) * BATCH_SIZE,
                                       Min({b * BATCH_SIZE, Len(ls)})))]))

\* _process_large_text(text): [raised, text, total], total being the counts the
\* code drops
_process_large_text(txt, today) ==
    Let(_batch_process_text(txt), LAMBDA batches :
        Let(Tuple([b \in 1..Len(batches) |-> process_text(batches[b], today)]),
            LAMBDA results :
                [raised |-> \E b \in 1..Len(results) : results[b].raised,
                 text |-> JoinLines(Flatten(Tuple([b \in 1..Len(results) |->
                                                     results[b].lines]))),
                 total |-> SumOf(Tuple([b \in 1..Len(results) |-> results[b].total]))]))

\* lines 579-588 of _process_text_in_thread: [raised, text, total]
CleanedText(txt, today) ==
    IF Len(splitlines(txt)) > BATCH_SIZE THEN _process_large_text(txt, today)
    ELSE Let(process_text(txt, today), LAMBDA r :
             [raised |-> r.raised, text |-> JoinLines(r.lines), total |-> r.total])

\* self.input_text.get(1.0, tk.END): Tk ends what a text widget returns with a
\* newline
WidgetGet(content) == content \o <<"\n">>

\* the template the editors show for a new guideline
default_rules ==
    Flatten(<<
        <<"#", " ", "U+00EA", "U+00B0", "U+0080", "U+00EC", "U+009D", "U+00B4", "U+00EB", "U+0093", "U+009C", "U+00EB", "U+009D", "U+00BC", "U+00EC", "U+009D", "U+00B8", " ", "U+00EA", "U+00B7", "U+009C", "U+00EC", "U+00B9", "U+0099", " ", "U+00EC", "U+0098", "U+0088", "U+00EC", "U+008B", "U+009C", "\n">>,
        <<"#", " ", "U+00EA", "U+00B0", "U+0081", " ", "U+00EC", "U+00A4", "U+0084", "U+00EC", "U+0097", "U+0090", " ", "U+00ED", "U+0095", "U+0098", "U+00EB", "U+0082", "U+0098", "U+00EC", "U+009D", "U+0098", " ", "U+00EA", "U+00B7", "U+009C", "U+00EC", "U+00B9", "U+0099", "U+00EC", "U+009D", "U+0084", " ", "U+00EC", "U+009E", "U+0085", "U+00EB", "U+00A0", "U+00A5", "U+00ED", "U+0095", "U+0098", "U+00EC", "U+0084", "U+00B8", "U+00EC", "U+009A", "U+0094", "\n">>,
        <<"#", " ", "#", "U+00EC", "U+009C", "U+00BC", "U+00EB", "U+00A1", "U+009C", " ", "U+00EC", "U+008B", "U+009C", "U+00EC", "U+009E", "U+0091", "U+00ED", "U+0095", "U+0098", "U+00EB", "U+008A", "U+0094", " ", "U+00EC", "U+00A4", "U+0084", "U+00EC", "U+009D", "U+0080", " ", "U+00EC", "U+00A3", "U+00BC", "U+00EC", "U+0084", "U+009D", "U+00EC", "U+009E", "U+0085", "U+00EB", "U+008B", "U+0088", "U+00EB", "U+008B", "U+00A4", "\n">>,
        <<"\n">>,
        <<"R", "e", "m", "o", "v", "e", " ", "e", "m", "p", "t", "y", " ", "l", "i", "n", "e", "s", "\n">>,
        <<"R", "e", "m", "o", "v", "e", " ", "Y", "o", "u", "T", "u", "b", "e", " ", "l", "i", "n", "k", "s", "\n">>,
        <<"T", "r", "i", "m", " ", "w", "h", "i", "t", "e", "s", "p", "a", "c", "e", "\n">>,
        <<"R", "e", "m", "o", "v", "e", " ", "n", "a", "m", "e", " ", "e", "m", "o", "j", "i", "s", "\n">>,
        <<"U", "n", "i", "f", "y", " ", "d", "a", "t", "e", " ", "f", "o", "r", "m", "a", "t", "s", "\n">>,
        <<"U", "n", "i", "f", "y", " ", "t", "i", "m", "e", " ", "f", "o", "r", "m", "a", "t", "s", "\n">>,
        <<"C", "o", "n", "v", "e", "r", "t", " ", "w", "e", "e", "k", "d", "a", "y", "s", "\n">>,
        <<"C", "l", "e", "a", "n", " ", "m", "e", "s", "s", "a", "g", "e", " ", "f", "o", "r", "m", "a", "t", "\n">>,
        <<"C", "l", "e", "a", "n", " ", "s", "p", "e", "c", "i", "a", "l", " ", "c", "h", "a", "r", "a", "c", "t", "e", "r", "s">>>>)

RECURSIVE Split(_, _)
\* s.split(sep) for a separator of one character
Split(s, sep) ==
    Let({i \in 1..Len(s) : s[i] = sep}, LAMBDA at :
        IF at = {} THEN <<s>>
        ELSE <<Slice(s, 0, Min(at) - 1)>> \o Split(Slice(s, Min(at), Len(s)), sep))

\* the rules of what an editor holds: its lines, stripped, without the empty
\* ones and those that start with "#"
ParseRules(content) ==
    Let(Split(content, "\n"), LAMBDA ls :
        Let(Tuple([i \in 1..Len(ls) |-> Strip(ls[i])]), LAMBDA stripped :
            SelectSeq(stripped, LAMBDA line : line # <<>> /\ line[1] # "#")))

\* f"사용자 정의 가이드라인: {new_name}"
UserDescription(name) ==
    <<"U+C0AC U+C6A9 U+C790 U+0020 U+C815 U+C758 U+0020 U+AC00 U+C774 U+B4DC U+B77C U+C778 U+003A U+0020", name>>

\* save_guidelines as a function of how the write goes: the files after it
SaveOutcomes == {"written", "refused", "truncated"}
FilesAfter(f, g, outcome) ==
    CASE outcome = "written" -> [f EXCEPT ![guidelines_file] = JsonFile(g)]
      [] outcome = "refused" -> f
      [] outcome = "truncated" -> [f EXCEPT ![guidelines_file] = NotJson]

\* _update_guideline_combo: the first name, or None
FirstGuideline(g) == IF g # <<>> THEN g[1].name ELSE "None"

\* the guidelines.json the application starts with
AppGuidelines ==
    << [name |-> DefaultName,
        description |-> DefaultDescription,
        rules |-> <<<<"R", "e", "m", "o", "v", "e", " ", "e", "m", "p", "t", "y", " ", "l", "i", "n", "e", "s">>, <<"T", "r", "i", "m", " ", "w", "h", "i", "t", "e", "s", "p", "a", "c", "e">>>>],
       [name |-> "x",
        description |-> "d",
        rules |-> <<<<"r", "1">>>>] >>

\* a link with a time in its query
LinkText == <<"h", "t", "t", "p", "s", ":", "/", "/", "y", "o", "u", "t", "u", ".", "b", "e", "/", "a", "b", "c", "1", "2", "3", "?", "t", "=", "1", ":", "3", "0">>

\* what the user puts in the input widget
AppTexts ==
    {<<>>,
     LinkText,
     <<"a", "\n", "\n", "b">>}

\* what the user leaves in the rules box of an editor (after strip())
Contents ==
    {<<>>,
     <<"#", " ", "c">>,
     <<"r", "1", "\n", "#", " ", "c", "\n", "\n", " ", "r", "2">>,
     default_rules}

\* the names the user enters in an editor
EditorNames == Names \cup {"y"}

NewGuideline == "U+C0C8 U+0020 U+AC00 U+C774 U+B4DC U+B77C U+C778"

\* a worker: where it is in _process_text_in_thread, its argument, its
\* result_text; what process_text returned as the count, whether its argument
\* came from the cache and what the widget held
Worker(input_content, hit, original) ==
    [pc |-> "process", input_content |-> input_content, result_text |-> <<>>,
     returned |-> 0, hit |-> hit, original |-> original]

Remove(seq, i) == SubSeq(seq, 1, i - 1) \o SubSeq(seq, i + 1, Len(seq))

\* a handler that ran, what came of it and, for the editors, the name the
\* editor was opened with and the name it was left with
EditorEvent(handler, outcome, name, new_name) ==
    [handler |-> handler, outcome |-> outcome, name |-> name, new_name |-> new_name]
Event(handler, outcome) == EditorEvent(handler, outcome, "-", "-")

Screen(fn, result_text, count, returned, status) ==
    [fn |-> fn, result_text |-> result_text, youtube_links_removed |-> count,
     returned |-> returned, status |-> status]

\* the UI thread is where it handles events: in mainloop, or in the
\* root.update() of _start_processing
Handling == ui \in {"idle", "update"}

\* the user edits the input
Type ==
    /\ Handling
    /\ input_text' \in AppTexts \ {input_text}
    /\ event' = Event("edit", "-")
    /\ UNCHANGED <<processing, lock, clean_button, ui, current_guideline, text_cache,
                   workers, after, shown, runs, edits>>
    /\ UNCHANGED <<textvars, registry>>

\* _on_guideline_selected
SelectGuideline ==
    /\ Handling
    /\ \E selected \in Names :
          IF HasKey(guidelines, selected)
          THEN /\ current_guideline' = selected
               /\ event' = Event("_on_guideline_selected", selected)
          ELSE /\ event' = Event("_on_guideline_selected", "-")
               /\ UNCHANGED current_guideline
    /\ UNCHANGED <<processing, lock, clean_button, ui, input_text, text_cache, workers,
                   after, shown, runs, edits>>
    /\ UNCHANGED <<textvars, registry>>

\* _clear_output
ClearOutput ==
    /\ Handling
    /\ text_cache' = <<>>
    /\ shown' = Screen("_clear_output", <<>>, 0, 0, "cleared")
    /\ event' = Event("_clear_output", "-")
    /\ UNCHANGED <<processing, lock, clean_button, ui, input_text, current_guideline,
                   workers, after, runs, edits>>
    /\ UNCHANGED <<textvars, registry>>

_clean_text_without_flag ==
    /\ Handling
    /\ IF lock
       THEN /\ event' = Event("_clean_text", "lock held")
            /\ UNCHANGED <<processing, lock, clean_button, ui, runs>>
       ELSE /\ runs < MaxRuns
            /\ runs' = runs + 1
            /\ processing' = TRUE
            /\ clean_button' = "disabled"
            /\ lock' = TRUE
            /\ ui' = "update"
            /\ event' = Event("_clean_text", "started")
    /\ UNCHANGED <<input_text, current_guideline, text_cache, workers, after, shown, edits>>
    /\ UNCHANGED <<textvars, registry>>

\* _clean_text up to the root.update() of _start_processing: the lock is taken
\* without waiting, a run in progress turns the request away
_clean_text ==
    /\ Handling
    /\ IF lock
       THEN /\ event' = Event("_clean_text", "lock held")
            /\ UNCHANGED <<processing, lock, clean_button, ui, runs>>
       ELSE IF processing
       THEN /\ event' = Event("_clean_text", "processing")
            /\ UNCHANGED <<processing, lock, clean_button, ui, runs>>
       ELSE /\ runs < MaxRuns
            /\ runs' = runs + 1
            /\ processing' = TRUE
            /\ clean_button' = "disabled"
            /\ lock' = TRUE
            /\ ui' = "update"
            /\ event' = Event("_clean_text", "started")
    /\ UNCHANGED <<input_text, current_guideline, text_cache, workers, after, shown, edits>>
    /\ UNCHANGED <<textvars, registry>>

\* _clean_text from the return of root.update(): the input is read, the cache
\* is asked, the worker is started and the lock released; when the thread
\* cannot be started _handle_processing_error resets the state
StartWorker ==
    /\ ui = "update"
    /\ \E started \in BOOLEAN :
          IF started
          THEN /\ workers' = Append(workers,
                      Worker(_optimize_text_processing(WidgetGet(input_text),
                                                       current_guideline, text_cache),
                             CacheHas(text_cache,
                                      cache_key(WidgetGet(input_text), current_guideline)),
                             WidgetGet(input_text)))
               /\ event' = Event("_clean_text", "worker started")
               /\ UNCHANGED <<processing, clean_button, shown>>
          ELSE /\ processing' = FALSE
               /\ clean_button' = "normal"
               /\ shown' = Screen("_handle_processing_error", <<>>, 0, 0, "error")
               /\ event' = Event("_clean_text", "error")
               /\ UNCHANGED workers
    /\ lock' = FALSE
    /\ ui' = "idle"
    /\ UNCHANGED <<input_text, current_guideline, text_cache, after, runs, edits>>
    /\ UNCHANGED <<textvars, registry>>

\* what a step of worker i leaves unchanged
WorkerFrame ==
    /\ UNCHANGED <<processing, lock, clean_button, ui, input_text, current_guideline,
                   shown, event, runs, edits>>
    /\ UNCHANGED <<text, lines, idx, pc, cleaned_line, prov, k, cleaned_lines, total,
                   date_in, time_in, injected, deleted, src, run, registry>>

\* lines 568-591: process_text, or the batches, and the join
Process ==
    \E i \in 1..Len(workers) :
        /\ workers[i].pc = "process"
        /\ clock' \in clock..MaxDay
        /\ \E r \in {CleanedText(workers[i].input_content, today_str(clock'))} :
              workers' = [workers EXCEPT ![i] =
                  IF r.raised THEN [@ EXCEPT !.pc = "failed"]
                  ELSE [@ EXCEPT !.pc = "test594", !.result_text = r.text,
                                 !.returned = r.total]]
        /\ UNCHANGED <<text_cache, after>>
        /\ WorkerFrame

\* line 594: "if self.current_guideline and self.current_guideline in self.guidelines"
Test594 ==
    \E i \in 1..Len(workers) :
        /\ workers[i].pc = "test594"
        /\ workers' = [workers EXCEPT ![i].pc =
              IF Selected(current_guideline, guidelines) THEN "test638" ELSE "store"]
        /\ UNCHANGED <<clock, text_cache, after>>
        /\ WorkerFrame

\* lines 638-639, the test _apply_guideline_rules makes again
Test638 ==
    \E i \in 1..Len(workers) :
        /\ workers[i].pc = "test638"
        /\ workers' = [workers EXCEPT ![i].pc =
              IF Selected(current_guideline, guidelines) THEN "get641" ELSE "store"]
        /\ UNCHANGED <<clock, text_cache, after>>
        /\ WorkerFrame

\* lines 641-652: self.guidelines[self.current_guideline], a KeyError when the
\* name is not there, and the loop over the rules
Get641 ==
    \E i \in 1..Len(workers) :
        /\ workers[i].pc = "get641"
        /\ workers' = [workers EXCEPT ![i] =
              IF HasKey(guidelines, current_guideline)
              THEN [@ EXCEPT !.pc = "store",
                             !.result_text =
                                 ApplyRules(@, DictGet(guidelines, current_guideline).rules).text]
              ELSE [@ EXCEPT !.pc = "failed"]]
        /\ UNCHANGED <<clock, text_cache, after>>
        /\ WorkerFrame

\* lines 600-607: the result goes into the cache under the key of the argument
Store ==
    \E i \in 1..Len(workers) :
        /\ workers[i].pc = "store"
        /\ text_cache' = CachePut(text_cache,
                                  cache_key(workers[i].input_content, current_guideline),
                                  workers[i].result_text)
        /\ workers' = [workers EXCEPT ![i].pc = "post"]
        /\ UNCHANGED <<clock, after>>
        /\ WorkerFrame

\* lines 612-613: the callback is queued with 0 as the count, and the thread ends
Post ==
    \E i \in 1..Len(workers) :
        /\ workers[i].pc = "post"
        /\ after' = Append(after,
              Screen("_update_gui_with_result", workers[i].result_text, 0,
                     workers[i].returned, "-"))
        /\ workers' = Remove(workers, i)
        /\ UNCHANGED <<clock, text_cache>>
        /\ WorkerFrame

\* lines 615-618: the except clause queues _show_error_and_reset, the thread ends
Failed ==
    \E i \in 1..Len(workers) :
        /\ workers[i].pc = "failed"
        /\ after' = Append(after, Screen("_show_error_and_reset", <<>>, 0, 0, "-"))
        /\ workers' = Remove(workers, i)
        /\ UNCHANGED <<clock, text_cache>>
        /\ WorkerFrame

RunCallback_without_finally ==
    /\ Handling
    /\ after # <<>>
    /\ after' = Tail(after)
    /\ IF Head(after).fn = "_update_gui_with_result"
       THEN \E updated \in BOOLEAN :
               /\ shown' = [Head(after) EXCEPT !.status =
                      IF ~updated THEN "error"
                      ELSE IF IsBlank(Head(after).result_text) THEN "empty"
                      ELSE "completed"]
               /\ processing' = (processing /\ ~updated)
               /\ clean_button' = IF updated THEN "normal" ELSE clean_button
       ELSE /\ shown' = [Head(after) EXCEPT !.status = "error"]
            /\ processing' = FALSE
            /\ clean_button' = "normal"
    /\ event' = Event(Head(after).fn, "-")
    /\ UNCHANGED <<lock, ui, input_text, current_guideline, text_cache, workers, runs,
                   edits>>
    /\ UNCHANGED <<textvars, registry>>

\* the UI thread runs the oldest queued callback: _update_gui_with_result, whose
\* finally clause resets the state whether the update went well or raised, or
\* _show_error_and_reset
RunCallback ==
    /\ Handling
    /\ after # <<>>
    /\ after' = Tail(after)
    /\ IF Head(after).fn = "_update_gui_with_result"
       THEN \E updated \in BOOLEAN :
               shown' = [Head(after) EXCEPT !.status =
                   IF ~updated THEN "error"
                   ELSE IF IsBlank(Head(after).result_text) THEN "empty"
                   ELSE "completed"]
       ELSE shown' = [Head(after) EXCEPT !.status = "error"]
    /\ processing' = FALSE
    /\ clean_button' = "normal"
    /\ event' = Event(Head(after).fn, "-")
    /\ UNCHANGED <<lock, ui, input_text, current_guideline, text_cache, workers, runs,
                   edits>>
    /\ UNCHANGED <<textvars, registry>>

\* the names of the mapping g, as a set
Listed(g) == {g[i].name : i \in 1..Len(g)}

\* what a guideline editor leaves unchanged
EditorFrame ==
    /\ UNCHANGED <<processing, lock, clean_button, ui, input_text, text_cache, workers,
                   after, shown, runs>>
    /\ UNCHANGED <<frozen, guidelines_file, rpc, path_no, textvars>>

\* an editor turns the request away
Rejected(handler, why, name, new_name) ==
    /\ event' = EditorEvent(handler, why, name, new_name)
    /\ UNCHANGED <<guidelines, files, last, current_guideline, edits>>

\* an editor changes the registry
Edit == edits < MaxEdits /\ edits' = edits + 1

\* delete_guideline of _show_guideline_editor_with_dropdown (lines 1645-1667),
\* when the user answers yes
dropdown_delete_guideline ==
    /\ Handling
    /\ \E selected \in Names \cup {NewGuideline} :
          IF selected = NewGuideline \/ ~HasKey(guidelines, selected)
          THEN Rejected("dropdown delete_guideline", "nothing to delete", selected, "-")
          ELSE \E outcome \in SaveOutcomes :
               /\ Edit
               /\ guidelines' = DictDel(guidelines, selected)
               /\ files' = FilesAfter(files, guidelines', outcome)
               /\ last' = Call("delete_guideline", selected, "-", <<>>, outcome = "written")
               /\ current_guideline' = FirstGuideline(guidelines')
               /\ event' = EditorEvent("dropdown delete_guideline", "deleted", selected, "-")
    /\ EditorFrame

\* save_guideline of _show_guideline_editor_with_dropdown (lines 1669-1717)
dropdown_save_guideline ==
    /\ Handling
    /\ \E selected \in Listed(guidelines) \cup {NewGuideline},
          entered \in EditorNames \cup {""},
          new_content \in Contents :
          LET new_name == IF selected = NewGuideline THEN entered ELSE selected
              rules == ParseRules(new_content)
              rejected(why) == Rejected("dropdown save_guideline", why, selected, new_name)
          IN  IF selected = NewGuideline /\ new_name = ""
              THEN rejected("no name")
              ELSE IF selected = NewGuideline /\ HasKey(guidelines, new_name)
              THEN rejected("name exists")
              ELSE IF new_content = <<>> \/ new_content = default_rules
              THEN rejected("no content")
              ELSE IF rules = <<>>
              THEN rejected("no rules")
              ELSE \E outcome \in SaveOutcomes :
                   /\ Edit
                   /\ guidelines' = DictSet(guidelines, new_name,
                                            UserDescription(new_name), rules)
                   /\ files' = FilesAfter(files, guidelines', outcome)
                   /\ last' = Call("add_guideline", new_name, UserDescription(new_name),
                                   rules, outcome = "written")
                   /\ current_guideline' = IF outcome = "written"
                                           THEN FirstGuideline(guidelines')
                                           ELSE current_guideline
                   /\ event' = EditorEvent("dropdown save_guideline",
                                           IF outcome = "written" THEN "saved" ELSE "failed",
                                           selected, new_name)
    /\ EditorFrame

\* _delete_guideline (lines 1324-1341), for a name of the list, when the user
\* answers yes
_delete_guideline ==
    /\ Handling
    /\ \E guideline_name \in Listed(guidelines), outcome \in SaveOutcomes :
          /\ Edit
          /\ guidelines' = DictDel(guidelines, guideline_name)
          /\ files' = FilesAfter(files, guidelines', outcome)
          /\ last' = Call("delete_guideline", guideline_name, "-", <<>>, outcome = "written")
          /\ current_guideline' = FirstGuideline(guidelines')
          /\ event' = EditorEvent("_delete_guideline", "deleted", guideline_name, "-")
    /\ EditorFrame

\* the end of save_guideline: add_guideline(new_name, ...) on the mapping g and
\* the files f, and what follows it
AddAndClose(g, f, guideline_name, new_name, rules) ==
    \E adding \in SaveOutcomes :
        /\ guidelines' = DictSet(g, new_name, UserDescription(new_name), rules)
        /\ files' = FilesAfter(f, guidelines', adding)
        /\ last' = Call("add_guideline", new_name, UserDescription(new_name), rules,
                        adding = "written")
        /\ current_guideline' = IF adding = "written"
                                THEN FirstGuideline(guidelines')
                                ELSE current_guideline
        /\ event' = EditorEvent("save_guideline",
                                IF adding = "written" THEN "saved" ELSE "failed",
                                guideline_name, new_name)

editor_save_guideline_validating_first ==
    /\ Handling
    /\ \E guideline_name \in Listed(guidelines) \cup {""},
          new_name \in EditorNames \cup {""},
          new_content \in Contents :
          LET rules == ParseRules(new_content)
              renamed == guideline_name # "" /\ guideline_name # new_name
              rejected(why) == Rejected("save_guideline", why, guideline_name, new_name)
          IN  IF new_name = ""
              THEN rejected("no name")
              ELSE IF new_content = <<>> \/ new_content = default_rules
              THEN rejected("no content")
              ELSE IF rules = <<>>
              THEN rejected("no rules")
              ELSE IF renamed
              THEN \E deleting \in SaveOutcomes :
                     /\ Edit
                     /\ AddAndClose(DictDel(guidelines, guideline_name),
                                    FilesAfter(files, DictDel(guidelines, guideline_name),
                                               deleting),
                                    guideline_name, new_name, rules)
              ELSE /\ Edit
                   /\ AddAndClose(guidelines, files, guideline_name, new_name, rules)
    /\ EditorFrame

\* save_guideline of _show_guideline_editor (lines 1432-1475), the editor having
\* been opened for guideline_name ("" for a new guideline): a changed name
\* deletes the old guideline, then the rules are read and an empty list ends
\* the save, then the guideline is added
editor_save_guideline ==
    /\ Handling
    /\ \E guideline_name \in Listed(guidelines) \cup {""},
          new_name \in EditorNames \cup {""},
          new_content \in Contents :
          LET rules == ParseRules(new_content)
              renamed == guideline_name # "" /\ guideline_name # new_name
              rejected(why) == Rejected("save_guideline", why, guideline_name, new_name)
          IN  IF new_name = ""
              THEN rejected("no name")
              ELSE IF new_content = <<>> \/ new_content = default_rules
              THEN rejected("no content")
              ELSE IF renamed
              THEN \E deleting \in SaveOutcomes :
                     /\ Edit
                     /\ IF rules = <<>>
                        THEN /\ guidelines' = DictDel(guidelines, guideline_name)
                             /\ files' = FilesAfter(files, guidelines', deleting)
                             /\ last' = Call("delete_guideline", guideline_name, "-", <<>>,
                                             deleting = "written")
                             /\ event' = EditorEvent("save_guideline", "no rules",
                                                     guideline_name, new_name)
                             /\ UNCHANGED current_guideline
                        ELSE AddAndClose(DictDel(guidelines, guideline_name),
                                         FilesAfter(files, DictDel(guidelines, guideline_name),
                                                    deleting),
                                         guideline_name, new_name, rules)
              ELSE IF rules = <<>>
              THEN rejected("no rules")
              ELSE /\ Edit
                   /\ AddAndClose(guidelines, files, guideline_name, new_name, rules)
    /\ EditorFrame

\* the main window without the editors: the mapping does not change, so that
\* no step of a worker raises
NextApp ==
    \/ Type
    \/ SelectGuideline
    \/ ClearOutput
    \/ _clean_text
    \/ StartWorker
    \/ Process
    \/ Test594
    \/ Test638
    \/ Get641
    \/ Store
    \/ Post
    \/ RunCallback

\* the application after __init__: the guidelines g are loaded from the user's
\* file, the first one is the current one, nothing is being cleaned, and the
\* input holds one of texts
AppStarts(g, texts) ==
    /\ NoText
    /\ frozen = FALSE
    /\ files = [exe |-> Absent, parent |-> Absent, script |-> Absent,
                user |-> JsonFile(g)]
    /\ guidelines_file = "user"
    /\ guidelines = g
    /\ rpc = "ready"
    /\ path_no = 2
    /\ last = Call("load_guidelines", "-", "-", <<>>, TRUE)
    /\ processing = FALSE
    /\ lock = FALSE
    /\ clean_button = "normal"
    /\ ui = "idle"
    /\ input_text \in texts
    /\ current_guideline = FirstGuideline(g)
    /\ text_cache = <<>>
    /\ workers = <<>>
    /\ after = <<>>
    /\ shown = Screen("-", <<>>, 0, 0, "ready")
    /\ event = Event("-", "-")
    /\ runs = 0
    /\ edits = 0

InitApp == AppStarts(AppGuidelines, AppTexts)
SpecApp == InitApp /\ [][NextApp]_vars

\* a step of the worker thread
WorkerStep == Process \/ Test594 \/ Test638 \/ Get641 \/ Store \/ Post \/ Failed

\* Clean runs on a text with a link while the user deletes guidelines in the
\* editor with the dropdown
NextRace ==
    \/ _clean_text
    \/ StartWorker
    \/ Process
    \/ Test594
    \/ Test638
    \/ Get641
    \/ Store
    \/ Post
    \/ Failed
    \/ RunCallback
    \/ dropdown_delete_guideline

InitRace == AppStarts(AppGuidelines, {LinkText})
SpecRace == InitRace /\ [][NextRace]_vars

\* the same with the scheduling Tk and the interpreter give: _clean_text
\* returns from root.update(), a started thread runs to its end, and the main
\* loop runs the callbacks that were queued
InitLive == AppStarts(<<AppGuidelines[1]>>, {LinkText})
SpecLive ==
    /\ InitLive
    /\ [][NextRace]_vars
    /\ WF_vars(StartWorker)
    /\ WF_vars(WorkerStep)
    /\ WF_vars(RunCallback)

NextEditor ==
    \/ SelectGuideline
    \/ dropdown_delete_guideline
    \/ dropdown_save_guideline
    \/ _delete_guideline
    \/ editor_save_guideline

\* the guideline editors, with no text in the input
InitEditor == AppStarts(AppGuidelines, {<<>>})
SpecEditor == InitEditor /\ [][NextEditor]_vars

(***************************************************************************)
(* Properties of process_text                                              *)
(***************************************************************************)
HasChar(s, cs) == \E i \in 1..Len(s) : s[i] \in cs
IsString(s) == DOMAIN s = 1..Len(s)
NonBlankLines(n) == {i \in 1..n : ~IsBlank(lines[i])}

\* C1: process_text is total: on any text (empty text, whitespace-only lines,
\* brackets, control characters, weekday times) no exception leaves it, and
\* what it returns is a pair of a list of strings and a non-negative integer.
C1_Total ==
    /\ pc # "raised"
    /\ pc = "done" =>
          /\ IsString(cleaned_lines)
          /\ \A j \in 1..Len(cleaned_lines) : IsString(cleaned_lines[j])
          /\ total \in Nat

C1_Witness ==
    /\ pc = "done"
    /\ HasChar(text, {"\f"})
    /\ HasChar(text, {KYo})
    /\ HasChar(text, {"("})
    /\ cleaned_lines # <<>>

\* C2: no line process_text returns contains '[', ']', '(' or ')': the first
\* step of clean_line deletes every one and no later step puts one back.
C2_NoBrackets ==
    /\ \A j \in 1..Len(cleaned_lines) : ~HasChar(cleaned_lines[j], {"[", "]", "(", ")"})
    /\ pc \in {"date", "time", "links", "cleanup", "append"} =>
          ~HasChar(cleaned_line, {"[", "]", "(", ")"})

C2_Witness ==
    /\ pc = "done"
    /\ \A b \in {"[", "]", "(", ")"} : HasChar(text, {b})
    /\ cleaned_lines # <<>>

\* C3: the returned list has at most as many lines as the input has non-blank
\* lines; no returned line is empty or whitespace-only; the returned lines
\* come from non-blank input lines, in the order of those lines; a non-blank
\* line whose cleaned form is blank is dropped.
C3_BlankElimination ==
    /\ Len(cleaned_lines) <= Cardinality(NonBlankLines(idx))
    /\ \A j \in 1..Len(cleaned_lines) : ~IsBlank(cleaned_lines[j])
    /\ Len(src) = Len(cleaned_lines)
    /\ \A j \in 1..Len(src) : src[j] \in NonBlankLines(idx)
    /\ \A i, j \in 1..Len(src) : i < j => src[i] < src[j]
    /\ pc = "done" => idx = Len(lines)

C3_Witness ==
    /\ pc = "done"
    /\ cleaned_lines # <<>>
    /\ Len(lines) >= 2
    /\ Len(cleaned_lines) < Cardinality(NonBlankLines(Len(lines)))

\* C4 (as the specification states it): the number of links process_text
\* reports is the number of links it deleted from the text.
C4_CountIsDeletions == pc = "done" => total = deleted

CheckThis == <<"c", "h", "e", "c", "k", " ", "t", "h", "i", "s", " ">>
Out == <<" ", "o", "u", "t">>
Urls == {<<"h", "t", "t", "p", "s", ":", "/", "/", "y", "o", "u", "t", "u", ".", "b", "e", "/", "a", "b", "c", "1", "2", "3">>,
         <<"h", "t", "t", "p", ":", "/", "/", "w", "w", "w", ".", "y", "o", "u", "t", "u", "b", "e", ".", "c", "o", "m", "/", "w">>}

C6_UrlDeletedEntirely ==
    (pc = "append" /\ ~IsBlank(cleaned_line)) =>
        \A i \in 1..Len(cleaned_line) : ~prov[i].url

TwoDigits(n) == <<DigitChars[(n \div 10) + 1], DigitChars[(n % 10) + 1]>>
Canonical(ymd) == ToStr(ymd[1]) \o <<"/">> \o TwoDigits(ymd[2]) \o <<"/">> \o TwoDigits(ymd[3])
Around == {<<>>, <<" ">>, <<"a">>}

\* C7: process_date_formats turns a date in any of the five recognised forms
\* into YYYY/MM/DD with month and day padded to two digits and a two-digit
\* year YY read as 20YY, and leaves the text around it as it is.
C7_DateNormalized ==
    pc = "time" =>
        \A f \in 1..5, ymd \in SampleDates, pre \in Around, post \in Around :
            date_in = pre \o DateText(f, ymd[1], ymd[2], ymd[3]) \o post =>
                cleaned_line = pre \o Canonical(ymd) \o post

C7_Witness ==
    /\ pc = "time"
    /\ date_in = <<"2", "5", ".", " ", "6", ".", " ", "2", ".">> \o <<"a">>
    /\ cleaned_line = <<"2", "0", "2", "5", "/", "0", "6", "/", "0", "2", "a">>

\* the matches of date pattern i that contain a character written by one of
\* the four-digit-year patterns
Rewrites(i) ==
    Let(FindAll(date_patterns[i], cleaned_line), LAMBDA ms :
        {j \in 1..Len(ms) :
            \E c \in 1..Len(cleaned_line) :
                ms[j].start < c /\ c <= ms[j].end /\ prov[c].by \in 1..3})

\* C8 (as the specification states it): a two-digit-year pattern never matches
\* inside text a four-digit-year pattern has produced.
C8_NoSecondTransformation ==
    (pc = "date" /\ k \in {4, 5}) => Rewrites(k) = {}

EnglishWeekday ==
    (KWol :> <<"M", "o", "n">>) @@ (KHwa :> <<"T", "u", "e">>) @@ (KSu :> <<"W", "e", "d">>) @@ (KMok :> <<"T", "h", "u">>)
    @@ (KGeum :> <<"F", "r", "i">>) @@ (KTo :> <<"S", "a", "t">>) @@ (KIl :> <<"S", "u", "n">>)

\* C9 (as the specification states it): the line '<w>요일 <time> AM/PM' becomes
\* '<time> AM/PM <English weekday>' and nothing else.
C9_ReorderedOnly ==
    pc = "append" =>
        \A w \in WeekdayChars, t \in ClockTimes, ap \in {"A", "P"} :
            lines[idx] = WeekdayLine(w, t, ap) =>
                cleaned_line = t \o <<" ", ap, "M", " ">> \o EnglishWeekday[w]

\* C9: the line '<w>요일 <time> AM/PM' becomes
\* '<today> <time> AM/PM <English weekday>': the weekday goes behind the time
\* as Mon, Tue, Wed, Thu, Fri, Sat, Sun for 월, 화, 수, 목, 금, 토, 일, and as the
\* line has no date, today's date goes before the time.
C9_ReorderedAfterToday ==
    pc = "append" =>
        \A w \in WeekdayChars, t \in ClockTimes, ap \in {"A", "P"} :
            lines[idx] = WeekdayLine(w, t, ap) =>
                cleaned_line = today_str(clock) \o <<" ">> \o t \o <<" ", ap, "M", " ">>
                                   \o EnglishWeekday[w]

C9_Witness ==
    /\ pc = "append"
    /\ lines[idx] = <<KWol, KYo, KIl, " ", "3", ":", "0", "5", " ", "P", "M">>
    /\ cleaned_line = <<"2", "0", "2", "6", "/", "1", "1", "/", "0", "2", " ", "3", ":", "0", "5", " ", "P", "M", " ", "M", "o", "n">>

AnyTime(s) == HasTime(1, s) \/ HasTime(2, s)
Contains(s, part) == \E i \in 0..(Len(s) - Len(part)) : IsPrefixAt(part, s, i)
Unmarked(s) == [s |-> s, prov |-> [i \in 1..Len(s) |-> [url |-> FALSE, by |-> 0]]]

\* C10 (as the specification states it): today's date is put before the time
\* exactly when the line, after date reformatting, has a time and no
\* YYYY/MM/DD date.
C10_InjectedIffTimeNoDate ==
    pc = "links" => (injected # {} <=> (AnyTime(time_in) /\ ~HasSlashDate(time_in)))

\* C10: today's date is put before the time exactly when the line, after date
\* reformatting, the change of 오전/오후 to AM/PM and the reordering of weekday
\* times, has a time and no YYYY/MM/DD date; a line with such a date gets no
\* date; '오후 3:05' becomes 'PM <today> 3:05'.
C10_InjectedIffTimeNoDateAtLoop ==
    pc = "links" =>
        /\ injected # {} <=>
              /\ AnyTime(BeforeInjection(Unmarked(time_in)).s)
              /\ ~HasSlashDate(BeforeInjection(Unmarked(time_in)).s)
        /\ injected # {} => Contains(cleaned_line, today_str(clock) \o <<" ">>)
        /\ HasSlashDate(time_in) =>
              /\ injected = {}
              /\ cleaned_line = BeforeInjection(Unmarked(time_in)).s
        /\ time_in = <<KO, KHu, " ", "3", ":", "0", "5">> =>
              cleaned_line = <<"P", "M", " ">> \o today_str(clock) \o <<" ", "3", ":", "0", "5">>

C10_Witness ==
    /\ pc = "links"
    /\ time_in = <<KO, KHu, " ", "3", ":", "0", "5">>
    /\ injected # {}
    /\ cleaned_line = <<"P", "M", " ", "2", "0", "2", "6", "/", "1", "1", "/", "0", "2", " ", "3", ":", "0", "5">>

\* the text process_time_formats has made of its argument when its loop begins
AtLoop == BeforeInjection(Unmarked(time_in)).s

\* the first match in s of the first time pattern the loop acted on
FirstTime(s) == Search(time_patterns[Min(injected)], s)[1]

\* C11 (as the specification states it): in a line without a date only the
\* first time is changed: today's date and a space are put before it, every
\* later time stays as written, and the date is put in once.
C11_OnlyFirstTimePrefixed ==
    (pc = "links" /\ injected # {}) =>
        cleaned_line = Slice(AtLoop, 0, FirstTime(AtLoop).start)
                           \o today_str(clock) \o <<" ">>
                           \o Slice(AtLoop, FirstTime(AtLoop).start, Len(AtLoop))

\* C12 (as the specification states it): a second process_text on the lines a
\* first one returned, on the same day, rewrites no date, reorders no weekday
\* time and inserts no today's date.
C12_SecondRunChangesNoDateOrTime ==
    (run = 2 /\ clock = 1) =>
        /\ pc = "date" => FindAll(date_patterns[k], cleaned_line) = <<>>
        /\ pc = "time" => FindAll(weekday_time_pattern, ConvertAmPm(Marked).s) = <<>>
        /\ pc = "links" => injected = {}

\* C13: no line process_text returns has two ASCII spaces in a row, also where
\* a deleted link had a space on each side.
C13_NoDoubleSpace ==
    /\ \A j \in 1..Len(cleaned_lines) : ~Contains(cleaned_lines[j], <<" ", " ">>)
    /\ (pc = "append" /\ ~IsBlank(cleaned_line)) => ~Contains(cleaned_line, <<" ", " ">>)

C13_Witness ==
    /\ pc = "done"
    /\ text = CheckThis \o <<"h", "t", "t", "p", ":", "/", "/", "w", "w", "w", ".", "y", "o", "u", "t", "u", "b", "e", ".", "c", "o", "m", "/", "w">> \o Out
    /\ cleaned_lines = <<<<"c", "h", "e", "c", "k", " ", "t", "h", "i", "s", " ", "o", "u", "t">>>>

\* C14: in a non-blank cleaned line each '보낸 메시지' is replaced by '나' and
\* each '이 회원님에게 보낸 답장' by '의', in place: a line that is a phrase
\* between text, spaces or nothing is returned with the phrase replaced and the
\* rest as it was, and no returned line contains either phrase.
C14_PhrasesReplaced ==
    /\ \A j \in 1..Len(cleaned_lines) :
          /\ ~Contains(cleaned_lines[j], SentMessage)
          /\ ~Contains(cleaned_lines[j], ReplyToYou)
    /\ pc = "append" =>
          \A pre \in Around, post \in Around :
              /\ lines[idx] = pre \o SentMessage \o post =>
                    cleaned_line = pre \o <<KNa>> \o post
              /\ lines[idx] = pre \o ReplyToYou \o post =>
                    cleaned_line = pre \o <<KUi>> \o post
              /\ lines[idx] = pre \o SentMessage \o ReplyToYou =>
                    cleaned_line = pre \o <<KNa, KUi>>
              /\ lines[idx] = SentMessage \o post \o SentMessage =>
                    cleaned_line = <<KNa>> \o post \o <<KNa>>

C14_Witness ==
    /\ pc = "done"
    /\ text = <<"a">> \o SentMessage \o ReplyToYou
    /\ cleaned_lines = <<<<"a", KNa, KUi>>>>

(***************************************************************************)
(* Properties of GuidelineManager                                          *)
(***************************************************************************)
Elements(seq) == {seq[i] : i \in 1..Len(seq)}
Without(seq, x) == SelectSeq(seq, LAMBDA y : y # x)

\* C15: a get_guideline(name) that follows an add_guideline(name, description,
\* rules) that returned True returns exactly that description and those rules,
\* in their order, whatever was called before.
C15_GetAfterAdd ==
    [][(/\ last.op = "add_guideline"
        /\ last.ret = TRUE
        /\ last'.op = "get_guideline"
        /\ last'.name = last.name)
          => last'.ret = [description |-> last.description, rules |-> last.rules]]_vars

C15_Witness ==
    /\ last.op = "get_guideline"
    /\ last.name = "x"
    /\ last.ret = [description |-> "e", rules |-> <<"r2", "r1">>]
    /\ Keys(guidelines) = <<DefaultName, "x">>

C18_InsertionOrder ==
    [][/\ last'.op \in {"add_guideline", "update_guideline"} =>
             Keys(guidelines') = IF last'.name \in Elements(Keys(guidelines))
                                 THEN Keys(guidelines)
                                 ELSE Keys(guidelines) \o <<last'.name>>
       /\ last'.op = "delete_guideline" =>
             Keys(guidelines') = Without(Keys(guidelines), last'.name)
       /\ last'.op \in {"get_guideline", "has_guidelines", "get_guideline_names"} =>
             Keys(guidelines') = Keys(guidelines)
       /\ last'.op = "get_guideline_names" => last'.ret = Keys(guidelines)]_vars

C18_Witness ==
    /\ last.op = "get_guideline_names"
    /\ last.ret = <<"x", DefaultName>>
    /\ files[guidelines_file].kind = "json"
    /\ Keys(files[guidelines_file].data) = <<DefaultName>>

\* no path load_guidelines looks at holds a file it can read
NothingFound ==
    \A i \in 1..Len(possible_paths) :
        files[possible_paths[i]].kind \in {"absent", "denied", "notjson"}

\* C19: when the constructor finds no file it can read, the registry holds, when
\* the constructor is done, exactly the guideline '기본' with the nine rules from
\* 'Remove empty lines' to 'Clean special characters', whether the default was
\* written to storage or not.
C19_DefaultSeeded ==
    [][(last.op = "__init__" /\ rpc = "load" /\ rpc' = "ready" /\ NothingFound) =>
          /\ Len(guidelines') = 1
          /\ guidelines'[1].name = DefaultName
          /\ guidelines'[1].rules =
                <<"Remove empty lines", "Remove YouTube links", "Trim whitespace",
                  "Remove name emojis", "Unify date formats", "Unify time formats",
                  "Convert weekdays", "Clean message format", "Clean special characters">>]_vars

C19_Witness ==
    /\ last.op = "__init__"
    /\ rpc = "ready"
    /\ Keys(guidelines) = <<DefaultName>>
    /\ Len(guidelines[1].rules) = 9
    /\ files[guidelines_file].kind # "json"

\* C20 (as the specification states it): the registry is never empty when the
\* constructor is done: a has_guidelines() that follows it returns True.
C20_SeededWheneverEmpty ==
    [][(last.op = "__init__" /\ rpc = "ready" /\ last'.op = "has_guidelines") =>
          last'.ret = TRUE]_vars
\* C21: an add_guideline or update_guideline of a name the registry has puts the
\* description and the rules of the call in the place of the old ones, leaves
\* the number of entries as it was with every name once, and leaves every other
\* guideline as it was.
C21_UpsertReplaces ==
    [][(last'.op \in {"add_guideline", "update_guideline"}
           /\ HasKey(guidelines, last'.name)) =>
             /\ DictGet(guidelines', last'.name) =
                   [description |-> last'.description, rules |-> last'.rules]
             /\ Len(guidelines') = Len(guidelines)
             /\ Cardinality(Elements(Keys(guidelines'))) = Len(guidelines')
             /\ \A n \in Names \ {last'.name} :
                   DictGet(guidelines', n) = DictGet(guidelines, n)]_vars

\* an update of "x", which the file still has as it was before the update
C21_Witness ==
    /\ last.op = "update_guideline"
    /\ last.name = "x"
    /\ last.ret = FALSE
    /\ files[guidelines_file].kind = "json"
    /\ Keys(files[guidelines_file].data) = <<"x", DefaultName>>
    /\ DictGet(files[guidelines_file].data, "x") = [description |-> "d", rules |-> <<"r1", "r2">>]
    /\ Keys(guidelines) = <<"x", DefaultName>>
    /\ DictGet(guidelines, "x") = [description |-> "e", rules |-> <<"r2", "r1">>]
\* C26: an add_guideline or delete_guideline whose save fails returns False and
\* keeps what it did to the registry: after the add the registry holds the new
\* entry and a get_guideline of the name returns it, after the delete the name
\* is not there and a get_guideline of it returns None.
C26_FailedSaveKeepsMutation ==
    [][/\ (last'.op = "add_guideline" /\ last'.ret = FALSE) =>
             DictGet(guidelines', last'.name) =
                 [description |-> last'.description, rules |-> last'.rules]
       /\ (last'.op = "delete_guideline" /\ last'.ret = FALSE) =>
             ~HasKey(guidelines', last'.name)
       /\ (last.op = "add_guideline" /\ last.ret = FALSE
              /\ last'.op = "get_guideline" /\ last'.name = last.name) =>
             last'.ret = [description |-> last.description, rules |-> last.rules]
       /\ (last.op = "delete_guideline" /\ last.ret = FALSE
              /\ last'.op = "get_guideline" /\ last'.name = last.name) =>
             last'.ret = None]_vars

\* an add of "x" returned False: the registry has "x", the file does not
C26_Witness ==
    /\ last.op = "add_guideline"
    /\ last.name = "x"
    /\ last.ret = FALSE
    /\ HasKey(guidelines, "x")
    /\ files[guidelines_file].kind = "json"
    /\ ~HasKey(files[guidelines_file].data, "x")
\* the links of the non-blank lines among the first n lines
RECURSIVE LinksUpTo(_)
LinksUpTo(n) ==
    IF n = 0 THEN 0
    ELSE LinksUpTo(n - 1)
           + (IF IsBlank(lines[n]) THEN 0 ELSE Len(YoutubeLinks(lines[n])))

\* C24: a non-blank line that cleaning leaves blank (a line that is just a
\* YouTube link) adds no line to the result, and its links are in the count; a
\* blank line adds nothing to the result and nothing to the count.
C24_CollapsedLineCounted ==
    /\ [](pc \in {"loop", "done"} =>
            /\ total = LinksUpTo(idx)
            /\ \A j \in 1..Len(src) : ~IsBlank(lines[src[j]]))
    /\ [][(pc = "append" /\ IsBlank(cleaned_line)) =>
             /\ cleaned_lines' = cleaned_lines
             /\ idx \notin Elements(src')
             /\ total' = total
             /\ total >= Len(YoutubeLinks(lines[idx]))]_vars
    /\ [][(pc = "loop" /\ idx' = idx + 1 /\ IsBlank(lines[idx'])) =>
             /\ cleaned_lines' = cleaned_lines
             /\ total' = total
             /\ pc' = "loop"]_vars

\* a line that is a link, then a line of one space: no line, one link counted
C24_Witness ==
    /\ pc = "done"
    /\ text = <<"h", "t", "t", "p", "s", ":", "/", "/", "y", "o", "u", "t", "u", ".", "b", "e", "/", "a", "b", "c", "1", "2", "3">> \o <<"\n", " ">>
    /\ cleaned_lines = <<>>
    /\ total = 1

(***************************************************************************)
(* Properties of the application                                            *)
(***************************************************************************)

\* C22 (as the specification states it): the mapping is not changed while a
\* clean worker is between its membership test and its lookup of the current
\* guideline, so that a worker that found the current guideline at line 638
\* finds it at line 641
C22_ConsistentSnapshot ==
    /\ [](\A i \in 1..Len(workers) :
            workers[i].pc = "get641" => HasKey(guidelines, current_guideline))
    /\ [][(\E i \in 1..Len(workers) : workers[i].pc \in {"test638", "get641"})
            => guidelines' = guidelines]_vars

\* guidelines with and without a rule that names "Remove empty lines", with
\* other labels and with none
RuleGuidelines ==
    << AppGuidelines[1],
       AppGuidelines[2],
       [name |-> "only", description |-> "d", rules |-> <<RemoveEmptyLines>>],
       [name |-> "twice", description |-> "d",
        rules |-> <<<<"1", ".", " ">> \o RemoveEmptyLines \o <<"!">>, <<"r", "1">>,
                    RemoveEmptyLines>>],
       [name |-> "none", description |-> "d", rules |-> <<>>] >>

\* C23: when process_text has returned, _apply_guideline_rules on the joined
\* cleaned lines returns them unchanged, whichever guideline is the current one
\* (one with the "Remove empty lines" rule, one without it, one the mapping does
\* not hold, or none), and applying it to its own result changes nothing either
C23_RulesChangeNothing ==
    pc = "done" =>
        \A cg \in Listed(RuleGuidelines) \cup {"None", "", "gone"} :
            /\ _apply_guideline_rules(JoinLines(cleaned_lines), cg, RuleGuidelines).text
                   = JoinLines(cleaned_lines)
            /\ _apply_guideline_rules(
                   _apply_guideline_rules(JoinLines(cleaned_lines), cg, RuleGuidelines).text,
                   cg, RuleGuidelines).text
                   = _apply_guideline_rules(JoinLines(cleaned_lines), cg, RuleGuidelines).text

\* two lines are returned, one of them with a space in front, and the rules of
\* the default guideline, which name "Remove empty lines", are applied to them
C23_Witness ==
    /\ pc = "done"
    /\ Len(cleaned_lines) = 2
    /\ \E i \in 1..2 : cleaned_lines[i][1] = " "
    /\ _apply_guideline_rules(JoinLines(cleaned_lines), DefaultName, RuleGuidelines).applied
           = <<RemoveEmptyLines>>

\* C25 (as the specification states it): the count the worker hands to
\* _update_gui_with_result, and the count on the screen after it, is the count
\* process_text returned for the run
C25_CountHandedOn ==
    /\ \A j \in 1..Len(after) :
          after[j].fn = "_update_gui_with_result"
              => after[j].youtube_links_removed = after[j].returned
    /\ shown.fn = "_update_gui_with_result"
          => shown.youtube_links_removed = shown.returned

\* a Clean request that was turned away
TurnedAway == {Event("_clean_text", "lock held"), Event("_clean_text", "processing")}

\* C27: there is never more than one clean worker; no run begins while the
\* lock is held or processing is True; and a Clean request that is turned away,
\* in the main loop or inside the root.update() of _start_processing, comes
\* while the lock is held or processing is True and changes nothing
C27_OneWorker ==
    /\ [](Len(workers) <= 1)
    /\ [][(lock \/ processing) => runs' = runs]_vars
    /\ [][(event' # event /\ event' \in TurnedAway) =>
            /\ lock \/ processing
            /\ UNCHANGED <<processing, lock, clean_button, ui, input_text,
                           current_guideline, text_cache, workers, after, shown, runs,
                           edits, textvars, registry>>]_vars

\* a request was turned away while the one worker was running
C27_Witness ==
    /\ event = Event("_clean_text", "processing")
    /\ ~lock
    /\ Len(workers) = 1
    /\ workers[1].pc = "test594"

C29_HitReprocessesCached ==
    /\ [][\A i \in 1..Len(workers') :
            (i > Len(workers) /\ workers'[i].hit) =>
                /\ CacheHas(text_cache, cache_key(workers'[i].original, current_guideline))
                /\ workers'[i].input_content
                       = CacheGet(text_cache,
                                  cache_key(workers'[i].original, current_guideline))]_vars
    /\ [][\A i \in 1..Len(workers) :
            (workers[i].hit /\ workers[i].pc = "store" /\ Len(workers') = Len(workers)
                 /\ workers'[i].pc = "post") =>
                /\ CacheHas(text_cache',
                            cache_key(workers[i].input_content, current_guideline))
                /\ CacheGet(text_cache',
                            cache_key(workers[i].input_content, current_guideline))
                       = workers[i].result_text]_vars
    /\ [][\A i \in 1..Len(workers) :
            (workers[i].hit /\ workers[i].pc = "post" /\ workers' = Remove(workers, i)) =>
                after'[Len(after')].result_text
                    = CleanedText(workers[i].input_content, today_str(clock)).text]_vars

\* the link was cleaned twice: the cache holds " 1:30" for the link and, under
\* the key of " 1:30", the dated line that the second run put on the screen
C29_Witness ==
    /\ shown.fn = "_update_gui_with_result"
    /\ shown.status = "completed"
    /\ input_text = LinkText
    /\ CacheHas(text_cache, cache_key(WidgetGet(LinkText), current_guideline))
    /\ \E cached \in {CacheGet(text_cache,
                                cache_key(WidgetGet(LinkText), current_guideline))} :
          /\ cached = <<" ", "1", ":", "3", "0">>
          /\ CacheHas(text_cache, cache_key(cached, current_guideline))
          /\ shown.result_text = CacheGet(text_cache, cache_key(cached, current_guideline))
          /\ shown.result_text = process_text(cached, today_str(clock)).lines[1]
          /\ shown.result_text # cached

\* C30: when save_guideline of the editor ends on "no rules" for a name that
\* was changed, the old guideline has been deleted from the mapping, whatever
\* became of the write, the rest of the mapping is as it was and no guideline
\* was added under the new name
C30_DeletedBeforeValidated ==
    [][(event' # event /\ event'.handler = "save_guideline" /\ event'.outcome = "no rules"
            /\ event'.name # "" /\ event'.name # event'.new_name) =>
        /\ HasKey(guidelines, event'.name)
        /\ ~HasKey(guidelines', event'.name)
        /\ guidelines' = DictDel(guidelines, event'.name)
        /\ HasKey(guidelines', event'.new_name) = HasKey(guidelines, event'.new_name)
        /\ last' = Call("delete_guideline", event'.name, "-", <<>>, last'.ret)]_vars

\* the default guideline was to be renamed to "y" with only a comment as its
\* content: it is gone, there is no "y", and "x" is what is left
C30_Witness ==
    /\ event = EditorEvent("save_guideline", "no rules", DefaultName, "y")
    /\ Listed(guidelines) = {"x"}
    /\ last.op = "delete_guideline"
    /\ last.ret = TRUE
    /\ files[guidelines_file] = JsonFile(guidelines)

====
